---- MODULE Spec2Model ----
(***************************************************************************)
(* Model of the signal throttle (src/src/signals/generator.py), of the     *)
(* signal service that drives it (src/src/signals/service.py) and of the   *)
(* circuit breaker (src/src/utils/retry.py) of the meme-coin bot.          *)
(*                                                                         *)
(* Throttle time (now) is counted in minutes, breaker time (clock) in      *)
(* seconds.  The code runs on one asyncio event loop: a task keeps the     *)
(* loop until it reaches an await, which is what the variable loop_owner   *)
(* and the breaker's per-call positions model.                             *)
(***************************************************************************)
EXTENDS Integers, Sequences, FiniteSets, TLC

\* ------------------------------------------------------------------ bounds
MaxTime == 75
TickMinutes == 15
MaxTokens == 2
NumTasks == 2
MaxCount == 4
MaxClock == 1200
ClockTick == 150
NumCalls == 2
\* MAX_SIGNALS_PER_HOUR is an environment setting (default 5); the model runs
\* a deployment with a small cap so that the cap is reached by few tokens.
MAX_SIGNALS_PER_HOUR == 2
\* the largest parameters a retry_with_backoff decorator is given
MaxRetries == 3
MaxInitialDelay == 2
MaxBackoffFactor == 3
NumCycles == 2
NumProcs == 2
MaxScanLen == 2
\* MAX_CONCURRENT_SCANS is an environment setting (default 10); the model
\* runs a deployment with a small gate so that few tasks fill it.
MAX_CONCURRENT_SCANS == 2
MaxEvents == 3
MaxCycleLen == 2
MaxCacheTime == 3
MaxTtl == 2
MaxParLen == 2
MaxConcurrency == 2

\* ------------------------------------------------- configuration / constants
MINIMUM_TOTAL_SCORE == 70
SIGNAL_COOLDOWN_MINUTES == 30
HourMinutes == 60
DatetimeMin == -1000000
\* CircuitBreaker("eth_price", failure_threshold=3, reset_timeout=300)
failure_threshold == 3
reset_timeout == 300
\* @retry_with_backoff(max_retries=3, initial_delay=1.0) on the adapter
\* methods; backoff_factor has its default, 2.0
ADAPTER_MAX_RETRIES == 3
ADAPTER_INITIAL_DELAY == 1
DEFAULT_BACKOFF_FACTOR == 2
\* buy/sell ratios are counted in tenths; 1.0 is the neutral default of
\* get_buy_sell_ratio
NEUTRAL_RATIO == 10
Ratios == {5, 10, 20}

Addresses == {"0xab", "0xAB", "0xcd"}
NoAddress == ""
Totals == {69, 70}
Tasks == 1..NumTasks
NoTask == 0
Calls == 1..NumCalls
NoCaller == 0
\* functions decorated with retry_with_backoff: two that let their errors
\* out (telegram/bot.py) and an adapter method that catches them itself
RaisingFunctions == {"_get_me", "send_message"}
AdapterFunction == "get_token_liquidity"
\* the execute() call that get_eth_price_usd makes for the wrapper call
RetryCaller == 1
\* ScannerService: the adapters in the order initialize() registers them,
\* the overlapping scan_all_blockchains calls, the tasks of a
\* process_tokens_in_parallel call
AdapterOrder == <<"ethereum", "solana">>
Adapters == {AdapterOrder[i] : i \in 1..Len(AdapterOrder)}
Cycles == 1..NumCycles
Procs == 1..NumProcs
ScanAddresses == {"0xab", "0xAB"}
\* ScoringService.process_new_tokens: the task that runs the cycles, the
\* candidates a scan may return, the outcome of scoring one candidate (a
\* total, or NoScore when scoring it raised)
CycleTask == 1
CycleCandidates == {[blockchain |-> "ethereum", address |-> "0xab"],
                    [blockchain |-> "solana", address |-> "So11"]}
NoScore == -1
\* how the enrichment of one token of a scan ends
EnrichmentOutcomes == {"info_failed", "not_meme", "details_failed",
                       "ratio_failed", "ok"}
\* FilterService: MINIMUM_LIQUIDITY_USD is an environment setting (default
\* 10000); the filters in the order initialize_filters registers them; the
\* tokens the chain is given: liquidity_usd a number when the key is there,
\* safety a dictionary when the key is there, each of its keys there or not
MINIMUM_LIQUIDITY_USD == 10000
FilterOrder == <<"Liquidity Filter", "Safety Filter">>
NoFilter == ""
LiquidityValues == {-1, 0, 9999, 10000, 10001}
AnyToken ==
    [has_liquidity : BOOLEAN, liquidity_usd : LiquidityValues,
     has_safety : BOOLEAN, is_safe : {"absent", "true", "false"},
     risk_level : {"absent", "low", "high", "unknown"}]
FilterTokens ==
    {tok \in AnyToken :
        /\ tok.has_liquidity \/ tok.liquidity_usd = 0
        /\ tok.has_safety \/ (tok.is_safe = "absent" /\ tok.risk_level = "absent")}
NoToken == [has_liquidity |-> FALSE, liquidity_usd |-> 0, has_safety |-> FALSE,
            is_safe |-> "absent", risk_level |-> "absent"]
\* TokenScorer (config/config.py, lines 38-41).  Scores are counted in
\* thousandths of a point, ratios and sentiments in tenths.
MIN_LIQUIDITY_USD == 10000
MIN_HOLDERS == 50
MIN_VOLUME_24H == 5000
BUY_SELL_RATIO_THRESHOLD == 15
Milli == 1000
\* the columns of a Token row and the results of the three SocialMention
\* queries: in range, zero, negative, very large
ScoredTokens ==
    [liquidity_usd : {-10000, 0, 10000, 1000000},
     volume_24h_usd : {-5000, 5000, 50000},
     recent_mentions_count : {0, 10},
     influencer_mentions_count : {0, 2},
     avg_sentiment : {-30, 10, 30},
     contract_audit_score : {-100, 0, 100, 400},
     is_honeypot : BOOLEAN,
     contract_verified : BOOLEAN,
     buy_sell_ratio : {10, 15},
     holders_count : {0, 1050}]
NoScoredToken ==
    [liquidity_usd |-> 0, volume_24h_usd |-> 0, recent_mentions_count |-> 0,
     influencer_mentions_count |-> 0, avg_sentiment |-> 0,
     contract_audit_score |-> 0, is_honeypot |-> FALSE,
     contract_verified |-> FALSE, buy_sell_ratio |-> 0, holders_count |-> 0]
NoScores == [liquidity_score |-> 0, volume_score |-> 0, social_score |-> 0,
             safety_score |-> 0, total_score |-> 0]
\* Cache: the keys and values of the calls, Miss for the None that get
\* returns, Nil for the reply of Redis for a key it does not hold
CacheKeys == {"k1"}
CacheValues == {"v1", "v2"}
CacheTtls == 1..MaxTtl
Miss == "None"
Nil == <<"nil">>
NoCacheOp == [op |-> "none", key |-> "", at |-> 0, result |-> Miss,
              raised |-> FALSE, backend_failed |-> FALSE, seq |-> 0]

\* the tasks that call one function wrapped by cache_result with the same
\* arguments, the key of those calls, the results the function can return
WrapCallers == {"t1", "t2"}
WrapKey == "k1"
WrapResults == CacheValues \cup {Miss}
NoWrap == [caller |-> "", result |-> Miss, invoked |-> FALSE, seq |-> 0]
NoPin == [value |-> Miss, until |-> 0]

\* the concurrent calls of ScannerService.start on one service
Starters == {"s1", "s2"}

\* the candidates of a batch: one that passes both filters, one below the
\* liquidity floor, one whose liquidity_usd is None (LiquidityFilter.apply
\* raises TypeError at line 50) and one whose safety is None
\* (SafetyFilter.apply raises AttributeError at line 42)
ParCandidates ==
    {[id |-> "pass", malformed |-> "no", has_liquidity |-> TRUE,
      liquidity_usd |-> 10001, has_safety |-> TRUE, is_safe |-> "true",
      risk_level |-> "low"],
     [id |-> "reject", malformed |-> "no", has_liquidity |-> TRUE,
      liquidity_usd |-> 9999, has_safety |-> TRUE, is_safe |-> "true",
      risk_level |-> "low"],
     [id |-> "bad_liquidity", malformed |-> "liquidity", has_liquidity |-> TRUE,
      liquidity_usd |-> 0, has_safety |-> TRUE, is_safe |-> "true",
      risk_level |-> "low"],
     [id |-> "bad_safety", malformed |-> "safety", has_liquidity |-> TRUE,
      liquidity_usd |-> 10001, has_safety |-> TRUE, is_safe |-> "absent",
      risk_level |-> "absent"]}
ParLists == UNION {[1..n -> ParCandidates] : n \in 0..MaxParLen}
NewParTask == [pc |-> "waiting", pos |-> 0, evaluated |-> << >>,
               raised |-> NoFilter, res |-> "pending"]

VARIABLES
    now,                    \* datetime.utcnow(), minutes
    recent_signals,         \* SignalGenerator.recent_signals: address -> time
    signal_count_last_hour, \* SignalGenerator.signal_count_last_hour
    last_signal_time,       \* SignalGenerator.last_signal_time
    svc_running,            \* SignalService.running
    telegram_service,       \* SignalService.telegram_service is set
    pc,                     \* per task: "idle", "generating", "sending"
    remaining,              \* per task: the tokens its loop has yet to visit
    signals,                \* per task: the signals list of generate_signals
    loop_owner,             \* the task that holds the event loop, or NoTask
    passed,                 \* per task: the address whose check it passed
                            \*   and whose signal it has not yet recorded
    recorded,               \* history: the records (address, time) made in
                            \*   the hour that ends at the latest record
    last_call,              \* history: the last method call on the generator
    clock,                  \* time.time(), seconds
    state,                  \* CircuitBreaker.state
    failure_count,          \* CircuitBreaker.failure_count
    last_failure_time,      \* CircuitBreaker.last_failure_time
    cpc,                    \* per execute() call: "idle" or "inflight" (at
                            \*   the await of the wrapped function)
    trial,                  \* history: the call in flight that moved the
                            \*   breaker to half-open, or NoCaller
    streak,                 \* history: failures since the breaker was last
                            \*   set to closed
    last_event,             \* history: the last step of an execute() call
    trial_failed_at,        \* history: the time of the last failure met in
                            \*   state half-open, or -1
    rpc,                    \* retry wrapper: "idle", "attempt" (at the await
                            \*   of the wrapped function), "fetching" (at the
                            \*   await inside execute()), "sleeping"
    rfunc,                  \* the function the wrapper decorates
    max_retries,            \* retry_with_backoff parameters of the call
    initial_delay,
    backoff_factor,
    retry,                  \* async_wrapper: the loop variable
    delay,                  \* async_wrapper: the local delay
    invocations,            \* history: invocations of the wrapped function
                            \*   made by the current wrapper call
    sleeps,                 \* history: the sleeps it took, in order
    routcome,               \* history: how the wrapper call ended
    scanners,               \* ScannerService.scanners (its keys)
    scan_semaphore,         \* the free permits of ScannerService.scan_semaphore
    cyc,                    \* per scan_all_blockchains call: "idle",
                            \*   "gathering", "returned"
    spc,                    \* per call and adapter, its scan_blockchain task:
                            \*   "none", "waiting", "scanning", "done"
    tres,                   \* per call and adapter: the result of the task
    all_tokens,             \* per call: the list it returned
    ppc,                    \* per process_with_limit task: "none", "waiting",
                            \*   "processing", "done"
    sraised,                \* history, per call and adapter: the scan raised
    epc,                    \* scan_for_new_tokens: "idle", "looping",
                            \*   "returned"
    events_left,            \* the PairCreated events its loop has yet to visit
    new_tokens,             \* its local list new_tokens
    scan_result,            \* the list it returned
    enriched,               \* history: the tokens of the scan whose
                            \*   enrichment gave details, in order
    cpos,                   \* process_new_tokens: "idle", "filtering",
                            \*   "scoring", "scored", "processing"
    cyc_tokens,             \* its local list tokens
    scores,                 \* its local dictionary scores: address -> total
    cyc_rest,                   \* the tokens generate_signals has yet to visit
    to_send,                \* history: the candidates of the signals that
                            \*   process_tokens has yet to send
    scanned,                \* history: the candidates the scan of the
                            \*   cycle returned
    filter_passed,          \* history: those that passed every filter
    own_score,              \* history: the outcome of scoring each of them
    accepted,               \* history: those the throttle accepted
    dispatched,             \* history: those handed to send_signal
    ftok,                   \* apply_filters_to_token: the token it was called with
    fpos,                   \* its position: 0 outside a call, else the index in self.filters of the filter to apply next
    evaluated,              \* history: the names of the filters applied to the token, in order
    fresult,                \* what the call returned: "none" (running or never called), "pass", "reject"
    rejected_by,            \* the filter named in the log line of the rejection
    score_pc,               \* _calculate_token_scores: "idle", "called", "returned"
    scored_token,           \* its arguments: the token's columns and what the session's queries give
    token_scores,           \* the dictionary it returned, in thousandths of a point
    cache_mode,             \* Cache: "new" before __init__, then "redis" (use_redis) or "memory"
    redis_up,               \* whether the Redis server answers; a command sent while it does not raises
    redis_store,            \* the keys Redis holds: key -> [value (serialized), expires_at]
    memory_cache,           \* _memory_cache: key -> [value, expires_at]
    ctime,                  \* time.time(), in ticks
    last_cache_op,          \* history: the last get, set or delete and what it returned
    latest,                 \* history: key -> [value, expires_at] of the last set of the key since its last delete
    scan_running,           \* ScannerService.running
    srv_pc,                 \* where main and ScannerService.start stand
    initializable,          \* the adapters whose initialize() succeeds now
    stop_in_cycle,          \* stop() was called while a cycle was in flight
    wpc,                    \* where each call of the cache_result wrapper stands
    last_wrap,              \* the wrapper call that returned last
    pin,                    \* the result a returned call left, with the end of its ttl
    start_pc,               \* where each call of ScannerService.start stands
    started_before_stop,    \* the start() calls made before the last stop()
    stop_done,              \* stop() has completed
    par_state,              \* where apply_filters_in_parallel stands
    par_tokens,             \* the tokens it was called with
    par_limit,              \* max_concurrency
    par_sem,                \* the permits of its semaphore
    par_task,               \* the filter_with_limit task of each token
    par_out                 \* the list it returned

throttle_vars == <<recent_signals, signal_count_last_hour, last_signal_time>>
task_vars == <<svc_running, telegram_service, pc, remaining, signals, loop_owner>>
hist_vars == <<passed, recorded, last_call>>
breaker_vars == <<clock, state, failure_count, last_failure_time, cpc, trial,
                  streak, last_event, trial_failed_at>>
signal_vars == <<now, throttle_vars, task_vars, hist_vars>>
retry_vars == <<rpc, rfunc, max_retries, initial_delay, backoff_factor, retry,
                delay, invocations, sleeps, routcome>>
scan_vars == <<scanners, scan_semaphore, cyc, spc, tres, all_tokens, ppc,
               sraised>>
enrich_vars == <<epc, events_left, new_tokens, scan_result, enriched>>
cycle_vars == <<cpos, cyc_tokens, scores, cyc_rest, to_send, scanned,
                filter_passed, own_score, accepted, dispatched>>
filter_vars == <<ftok, fpos, evaluated, fresult, rejected_by>>
scorer_vars == <<score_pc, scored_token, token_scores>>
cache_vars == <<cache_mode, redis_up, redis_store, memory_cache, ctime, last_cache_op, latest>>
service_vars == <<scan_running, srv_pc, initializable, stop_in_cycle>>
wrap_vars == <<wpc, last_wrap, pin>>
starts_vars == <<start_pc, started_before_stop, stop_done>>
par_vars == <<par_state, par_tokens, par_limit, par_sem, par_task, par_out>>
\* what the steps of one component leave alone
outside_signal == <<breaker_vars, retry_vars, scan_vars, enrich_vars,
    filter_vars,
    scorer_vars,
    cache_vars,
    service_vars,
    wrap_vars,
    starts_vars,
    par_vars>>
outside_breaker == <<signal_vars, scan_vars, enrich_vars, cycle_vars,
    filter_vars,
    scorer_vars,
    cache_vars,
    service_vars,
    wrap_vars,
    starts_vars,
    par_vars>>
outside_retry == <<signal_vars, scan_vars, enrich_vars, cycle_vars,
    filter_vars,
    scorer_vars,
    cache_vars,
    service_vars,
    wrap_vars,
    starts_vars,
    par_vars>>
outside_scan == <<signal_vars, breaker_vars, retry_vars, enrich_vars,
                  cycle_vars,
    filter_vars,
    scorer_vars,
    cache_vars,
    service_vars,
    wrap_vars,
    starts_vars,
    par_vars>>
outside_enrich == <<signal_vars, breaker_vars, retry_vars, scan_vars,
                    cycle_vars,
    filter_vars,
    scorer_vars,
    cache_vars,
    service_vars,
    wrap_vars,
    starts_vars,
    par_vars>>
outside_cycle == <<breaker_vars, retry_vars, scan_vars, enrich_vars,
    filter_vars,
    scorer_vars,
    cache_vars,
    service_vars,
    wrap_vars,
    starts_vars,
    par_vars>>
outside_filter == <<signal_vars, breaker_vars, retry_vars, scan_vars, enrich_vars,
                   cycle_vars,
    scorer_vars,
    cache_vars,
    service_vars,
    wrap_vars,
    starts_vars,
    par_vars>>
outside_scorer == <<signal_vars, breaker_vars, retry_vars, scan_vars, enrich_vars, cycle_vars, filter_vars,
    cache_vars,
    service_vars,
    wrap_vars,
    starts_vars,
    par_vars>>
outside_cache == <<signal_vars, breaker_vars, retry_vars, scan_vars, enrich_vars, cycle_vars, filter_vars, scorer_vars,
    service_vars,
    wrap_vars,
    starts_vars,
    par_vars>>
outside_service == <<signal_vars, breaker_vars, retry_vars, scan_vars,
                     enrich_vars, cycle_vars, filter_vars, scorer_vars,
                     cache_vars,
    wrap_vars,
    starts_vars,
    par_vars>>
\* the steps of the loop of ScannerService.start that call into the scan
outside_scan_service == <<signal_vars, breaker_vars, retry_vars, enrich_vars,
                          cycle_vars, filter_vars, scorer_vars, cache_vars,
    wrap_vars,
    starts_vars,
    par_vars>>
\* the steps of the cache_result wrapper work on the cache
outside_wrap == <<signal_vars, breaker_vars, retry_vars, scan_vars,
                  enrich_vars, cycle_vars, filter_vars, scorer_vars,
                  service_vars,
    starts_vars,
    par_vars>>
\* the steps of concurrent start() and stop() calls work on the flag, the
\* scanners and the scan cycles
outside_starts == <<signal_vars, breaker_vars, retry_vars, enrich_vars,
                    cycle_vars, filter_vars, scorer_vars, cache_vars,
                    wrap_vars,
    par_vars>>
outside_par == <<signal_vars, breaker_vars, retry_vars, scan_vars,
                 enrich_vars, cycle_vars, filter_vars, scorer_vars,
                 cache_vars, service_vars, wrap_vars, starts_vars>>
vars == <<signal_vars, breaker_vars, retry_vars, scan_vars, enrich_vars,
          cycle_vars,
    filter_vars,
    scorer_vars,
    cache_vars,
    service_vars,
    wrap_vars,
    starts_vars,
    par_vars>>

NoCall == [op |-> "none", key |-> NoAddress, at |-> 0, result |-> FALSE, seq |-> 0]

NoEvent == [call |-> NoCaller, kind |-> "none", from |-> "closed", seq |-> 0]

Init ==
    /\ now = 0
    /\ recent_signals = << >>
    /\ signal_count_last_hour = 0
    /\ last_signal_time = DatetimeMin
    /\ svc_running = FALSE
    /\ telegram_service = FALSE
    /\ pc = [t \in Tasks |-> "idle"]
    /\ remaining = [t \in Tasks |-> 0]
    /\ signals = [t \in Tasks |-> << >>]
    /\ loop_owner = NoTask
    /\ passed = [t \in Tasks |-> NoAddress]
    /\ recorded = {}
    /\ last_call = NoCall
    /\ clock = 0
    /\ state = "closed"
    /\ failure_count = 0
    /\ last_failure_time = 0
    /\ cpc = [c \in Calls |-> "idle"]
    /\ trial = NoCaller
    /\ streak = 0
    /\ last_event = NoEvent
    /\ trial_failed_at = -1
    /\ rpc = "idle"
    /\ rfunc = "none"
    /\ max_retries = 0
    /\ initial_delay = 0
    /\ backoff_factor = 0
    /\ retry = 0
    /\ delay = 0
    /\ invocations = 0
    /\ sleeps = << >>
    /\ routcome = "none"
    /\ scanners = {}
    /\ scan_semaphore = MAX_CONCURRENT_SCANS
    /\ cyc = [cy \in Cycles |-> "idle"]
    /\ spc = [cy \in Cycles |-> [a \in Adapters |-> "none"]]
    /\ tres = [cy \in Cycles |-> [a \in Adapters |-> << >>]]
    /\ all_tokens = [cy \in Cycles |-> << >>]
    /\ ppc = [p \in Procs |-> "none"]
    /\ sraised = [cy \in Cycles |-> [a \in Adapters |-> FALSE]]
    /\ epc = "idle"
    /\ events_left = 0
    /\ new_tokens = << >>
    /\ scan_result = << >>
    /\ enriched = << >>
    /\ cpos = "idle"
    /\ cyc_tokens = << >>
    /\ scores = << >>
    /\ cyc_rest = << >>
    /\ to_send = << >>
    /\ scanned = {}
    /\ filter_passed = {}
    /\ own_score = << >>
    /\ accepted = {}
    /\ dispatched = << >>
    /\ ftok = NoToken
    /\ fpos = 0
    /\ evaluated = << >>
    /\ fresult = "none"
    /\ rejected_by = NoFilter
    /\ score_pc = "idle"
    /\ scored_token = NoScoredToken
    /\ token_scores = NoScores
    /\ cache_mode = "new"
    /\ redis_up = TRUE
    /\ redis_store = << >>
    /\ memory_cache = << >>
    /\ ctime = 0
    /\ last_cache_op = NoCacheOp
    /\ latest = << >>
    /\ scan_running = FALSE
    /\ srv_pc = "new"
    /\ initializable = {}
    /\ stop_in_cycle = FALSE
    /\ wpc = [c \in WrapCallers |-> "idle"]
    /\ last_wrap = NoWrap
    /\ pin = NoPin
    /\ start_pc = [s \in Starters |-> "new"]
    /\ started_before_stop = {}
    /\ stop_done = FALSE
    /\ par_state = "idle"
    /\ par_tokens = << >>
    /\ par_limit = 1
    /\ par_sem = 0
    /\ par_task = << >>
    /\ par_out = << >>

\* ------------------------------------------------------- SignalGenerator
\* can_generate_signal, lines 41-46: the token is in its cooldown period.
InCooldown(addr) ==
    /\ addr \in DOMAIN recent_signals
    /\ now - recent_signals[addr] < SIGNAL_COOLDOWN_MINUTES

\* can_generate_signal, lines 49-50: the last signal is less than an hour old.
WithinLastHour == last_signal_time > now - HourMinutes

CanGenerateSignal_cap_strict(addr) ==
    /\ ~InCooldown(addr)
    /\ ~(WithinLastHour /\ signal_count_last_hour > MAX_SIGNALS_PER_HOUR)

\* can_generate_signal, the value it returns.
CanGenerateSignal(addr) ==
    /\ ~InCooldown(addr)
    /\ ~(WithinLastHour /\ signal_count_last_hour >= MAX_SIGNALS_PER_HOUR)

CountAfterCheck_reset_always(addr) ==
    IF ~InCooldown(addr) /\ signal_count_last_hour < MAX_SIGNALS_PER_HOUR
    THEN 0 ELSE signal_count_last_hour

\* can_generate_signal, the counter it leaves behind (lines 54-56).
CountAfterCheck(addr) ==
    IF ~InCooldown(addr) /\ ~WithinLastHour THEN 0 ELSE signal_count_last_hour

CleanupOldSignals_inverted(rs, current_time) ==
    [a \in {x \in DOMAIN rs : current_time - rs[x] > SIGNAL_COOLDOWN_MINUTES}
        |-> rs[a]]

\* _cleanup_old_signals
CleanupOldSignals(rs, current_time) ==
    [a \in {x \in DOMAIN rs : current_time - rs[x] < SIGNAL_COOLDOWN_MINUTES}
        |-> rs[a]]

CountAfterRecord_no_increment(cnt) == cnt

\* record_signal, line 69
CountAfterRecord(cnt) == cnt + 1

\* The records of the hour that ends at t; older ones share no 60-minute
\* window with a record made from time t on.
LastHour(rec, t) == {e \in rec : e.at > t - HourMinutes}

\* record_signal
RecordSignal(addr) ==
    /\ recent_signals' = CleanupOldSignals(
          [a \in DOMAIN recent_signals \cup {addr} |->
               IF a = addr THEN now ELSE recent_signals[a]], now)
    /\ last_signal_time' = now
    /\ signal_count_last_hour' = CountAfterRecord(signal_count_last_hour)
    /\ recorded' = LastHour(recorded, now) \cup {[addr |-> addr, at |-> now]}

\* --------------------------------------------------------- SignalService
\* The tokens a caller may pass: <<address, total score>>, the score being
\* the one the scores dictionary holds for the address.  A list is given by
\* its length; its tokens are drawn as the loop reaches them.
Tokens == (Addresses \cup {NoAddress}) \X Totals

\* SignalService.initialize
Initialize ==
    /\ UNCHANGED outside_signal
    /\ loop_owner = NoTask
    /\ telegram_service' = TRUE
    /\ UNCHANGED <<now, throttle_vars, svc_running, pc, remaining, signals,
                   loop_owner, hist_vars>>

\* SignalService.start
StartService ==
    /\ UNCHANGED outside_signal
    /\ loop_owner = NoTask
    /\ svc_running' = TRUE
    /\ UNCHANGED <<now, throttle_vars, telegram_service, pc, remaining,
                   signals, loop_owner, hist_vars>>

\* SignalService.stop
StopService ==
    /\ UNCHANGED outside_signal
    /\ loop_owner = NoTask
    /\ svc_running' = FALSE
    /\ UNCHANGED <<now, throttle_vars, telegram_service, pc, remaining,
                   signals, loop_owner, hist_vars>>

\* SignalService.process_tokens up to the first iteration of the loop of
\* generate_signals, called with a list of n tokens: a stopped service and
\* an empty list return at once.
ProcessTokens(t, n) ==
    /\ UNCHANGED outside_signal
    /\ loop_owner = NoTask
    /\ pc[t] = "idle"
    /\ IF svc_running /\ n > 0
       THEN /\ pc' = [pc EXCEPT ![t] = "generating"]
            /\ remaining' = [remaining EXCEPT ![t] = n]
            /\ signals' = [signals EXCEPT ![t] = << >>]
            /\ loop_owner' = t
       ELSE UNCHANGED <<pc, remaining, signals, loop_owner>>
    /\ UNCHANGED <<now, throttle_vars, svc_running, telegram_service, hist_vars>>

\* The end of one iteration of the loop of generate_signals, with sigs the
\* signals list so far: the next token, or the return to process_tokens,
\* which suspends at its first send_signal or returns.
NextToken(t, sigs) ==
    /\ signals' = [signals EXCEPT ![t] = sigs]
    /\ remaining' = [remaining EXCEPT ![t] = remaining[t] - 1]
    /\ IF remaining[t] > 1
       THEN /\ loop_owner' = t
            /\ UNCHANGED pc
       ELSE /\ loop_owner' = NoTask
            /\ pc' = [pc EXCEPT ![t] =
                        IF sigs # << >> /\ telegram_service
                        THEN "sending" ELSE "idle"]

LoopOwnerAfterCheck_await(t) == NoTask

\* generate_signals has no await between can_generate_signal (line 113) and
\* record_signal (line 124): the task keeps the event loop.
LoopOwnerAfterCheck(t) == t

\* generate_signals, lines 98-114: one token up to the throttle check.
CheckToken(t, tok) ==
    /\ UNCHANGED outside_signal
    /\ pc[t] = "generating"
    /\ loop_owner \in {t, NoTask}
    /\ passed[t] = NoAddress
    /\ LET addr == tok[1]
           total == tok[2]
       IN IF addr = NoAddress \/ total < MINIMUM_TOTAL_SCORE
          THEN /\ NextToken(t, signals[t])
               /\ UNCHANGED <<throttle_vars, hist_vars>>
          ELSE /\ signal_count_last_hour' = CountAfterCheck(addr)
               /\ UNCHANGED <<recent_signals, last_signal_time, recorded, last_call>>
               /\ IF CanGenerateSignal(addr)
                  THEN /\ passed' = [passed EXCEPT ![t] = addr]
                       /\ loop_owner' = LoopOwnerAfterCheck(t)
                       /\ UNCHANGED <<pc, remaining, signals>>
                  ELSE /\ NextToken(t, signals[t])
                       /\ UNCHANGED passed
    /\ UNCHANGED <<now, svc_running, telegram_service>>

\* generate_signals, lines 116-126: the signal of a token that passed the
\* check is created, appended and recorded.
RecordToken(t) ==
    /\ UNCHANGED outside_signal
    /\ pc[t] = "generating"
    /\ loop_owner \in {t, NoTask}
    /\ passed[t] # NoAddress
    /\ RecordSignal(passed[t])
    /\ passed' = [passed EXCEPT ![t] = NoAddress]
    /\ NextToken(t, Append(signals[t], passed[t]))
    /\ UNCHANGED <<now, svc_running, telegram_service, last_call>>

\* process_tokens, lines 74-82: one await of send_signal completes; if it
\* raised, the except clause returns and the remaining signals are not sent.
SendSignal(t, raised) ==
    /\ UNCHANGED outside_signal
    /\ loop_owner = NoTask
    /\ pc[t] = "sending"
    /\ LET rest == IF raised THEN << >> ELSE Tail(signals[t])
       IN /\ signals' = [signals EXCEPT ![t] = rest]
          /\ pc' = [pc EXCEPT ![t] = IF rest = << >> THEN "idle" ELSE "sending"]
    /\ UNCHANGED <<now, throttle_vars, svc_running, telegram_service,
                   remaining, loop_owner, hist_vars>>

\* Time passes while no task holds the event loop (a task runs from one
\* await to the next in a time that is negligible against TickMinutes).
Tick ==
    /\ UNCHANGED outside_signal
    /\ loop_owner = NoTask
    /\ now + TickMinutes <= MaxTime
    /\ now' = now + TickMinutes
    /\ UNCHANGED <<throttle_vars, task_vars, hist_vars>>

Next ==
    \/ Initialize /\ UNCHANGED cycle_vars
    \/ StartService /\ UNCHANGED cycle_vars
    \/ StopService /\ UNCHANGED cycle_vars
    \/ \E t \in Tasks, n \in 0..MaxTokens :
          ProcessTokens(t, n) /\ UNCHANGED cycle_vars
    \/ \E t \in Tasks, tok \in Tokens :
          CheckToken(t, tok) /\ UNCHANGED cycle_vars
    \/ \E t \in Tasks : RecordToken(t) /\ UNCHANGED cycle_vars
    \/ \E t \in Tasks, raised \in BOOLEAN :
          SendSignal(t, raised) /\ UNCHANGED cycle_vars
    \/ Tick /\ UNCHANGED cycle_vars

Spec == Init /\ [][Next]_vars

\* ---------------------------------------- the generator's methods, called
\* directly in any order (SignalGenerator is a module-level singleton whose
\* methods are public).
CallRecord(op, addr, res) ==
    [op |-> op, key |-> addr, at |-> now, result |-> res,
     seq |-> 1 - last_call.seq]

\* can_generate_signal(addr)
CanGenerateSignalCall(addr) ==
    /\ UNCHANGED outside_signal
    /\ signal_count_last_hour' = CountAfterCheck(addr)
    /\ last_call' = CallRecord("can", addr, CanGenerateSignal(addr))
    /\ UNCHANGED <<now, recent_signals, last_signal_time, task_vars, passed,
                   recorded>>

\* record_signal(addr)
RecordSignalCall(addr) ==
    /\ UNCHANGED outside_signal
    /\ signal_count_last_hour < MaxCount
    /\ RecordSignal(addr)
    /\ last_call' = CallRecord("record", addr, TRUE)
    /\ UNCHANGED <<now, task_vars, passed>>

NextAPI ==
    \/ \E addr \in Addresses : CanGenerateSignalCall(addr) /\ UNCHANGED cycle_vars
    \/ \E addr \in Addresses : RecordSignalCall(addr) /\ UNCHANGED cycle_vars
    \/ Tick /\ UNCHANGED cycle_vars

SpecAPI == Init /\ [][NextAPI]_vars

\* ------------------------------------------------------ throttle claims
Max(S) == CHOOSE x \in S : \A y \in S : y <= x
RecordTimes(addr) == {e.at : e \in {f \in recorded : f.addr = addr}}
RangeOf(seq) == {seq[i] : i \in DOMAIN seq}
IsCall(op) == last_call' # last_call /\ last_call'.op = op

\* The identity key of a token as the specification defines it: its
\* address, case-normalised ("0xAB" and "0xab" are one token).
IdentityKey(addr) == IF addr = "0xAB" THEN "0xab" ELSE addr

\* C1: two signals emitted for the same identity key (case-normalised
\* address) are at least SIGNAL_COOLDOWN_MINUTES apart, and no 60-minute
\* window holds more than MAX_SIGNALS_PER_HOUR signals.
C1_CooldownAndCapPerIdentityKey ==
    /\ \A e, f \in recorded :
          (e # f /\ IdentityKey(e.addr) = IdentityKey(f.addr))
             => (e.at - f.at >= SIGNAL_COOLDOWN_MINUTES
                 \/ f.at - e.at >= SIGNAL_COOLDOWN_MINUTES)
    /\ \A e \in recorded :
          Cardinality({f \in recorded :
                         e.at <= f.at /\ f.at < e.at + HourMinutes})
             <= MAX_SIGNALS_PER_HOUR

\* C2: after a record for an address at t0, can_generate_signal is false at
\* every time before t0 + cooldown, and true at every time after
\* t0 + cooldown while the hourly counter is below the cap.
C2_CooldownBoundary ==
    \A addr \in Addresses :
       RecordTimes(addr) # {} =>
          LET t0 == Max(RecordTimes(addr))
          IN /\ now < t0 + SIGNAL_COOLDOWN_MINUTES => ~CanGenerateSignal(addr)
             /\ (now > t0 + SIGNAL_COOLDOWN_MINUTES
                 /\ signal_count_last_hour < MAX_SIGNALS_PER_HOUR)
                   => CanGenerateSignal(addr)

C2_Witness ==
    /\ last_call.op = "can" /\ last_call.result /\ last_call.at = now
    /\ RecordTimes(last_call.key) # {}
    /\ now > Max(RecordTimes(last_call.key)) + SIGNAL_COOLDOWN_MINUTES
    /\ now < Max(RecordTimes(last_call.key)) + HourMinutes

\* C3: once MAX_SIGNALS_PER_HOUR distinct addresses were recorded within one
\* hour, can_generate_signal is false for every address that is not in
\* cooldown until an hour has passed since the latest record (the window
\* rolls over), and true from then on.
CapUsedUp == Cardinality({e.addr : e \in recorded}) >= MAX_SIGNALS_PER_HOUR
LatestRecord == Max({e.at : e \in recorded})
OutOfCooldown(addr) ==
    \A t \in RecordTimes(addr) : now - t >= SIGNAL_COOLDOWN_MINUTES

C3_HourlyCap ==
    \A addr \in Addresses :
       (CapUsedUp /\ OutOfCooldown(addr)) =>
          /\ now < LatestRecord + HourMinutes => ~CanGenerateSignal(addr)
          /\ now >= LatestRecord + HourMinutes => CanGenerateSignal(addr)

C3_Witness ==
    /\ CapUsedUp
    /\ now >= LatestRecord + HourMinutes
    /\ last_call.op = "can" /\ last_call.result /\ last_call.at = now
    /\ RecordTimes(last_call.key) = {}

\* C4: no two tasks have both passed the throttle check for the same address
\* without having recorded the signal.
C4_CheckAndRecordAtomic ==
    \A t1, t2 \in Tasks :
       (t1 # t2 /\ passed[t1] # NoAddress) => passed[t1] # passed[t2]

C4_Witness ==
    \E t1, t2 \in Tasks :
       /\ t1 # t2
       /\ passed[t1] # NoAddress
       /\ pc[t2] = "sending"
       /\ passed[t1] \in RangeOf(signals[t2])

\* C5 as claimed: a call of can_generate_signal changes no part of the
\* throttle state.
C5_CanGenerateIsPure ==
    [][IsCall("can") => UNCHANGED throttle_vars]_vars

\* C5: a call of can_generate_signal leaves recent_signals and
\* last_signal_time unchanged; the counter it either leaves unchanged or,
\* when it returns true and the last signal is an hour old or older, sets
\* to 0.
C5_CanGenerateFrame ==
    [][IsCall("can") =>
         /\ UNCHANGED <<recent_signals, last_signal_time>>
         /\ \/ signal_count_last_hour' = signal_count_last_hour
            \/ /\ signal_count_last_hour' = 0
               /\ last_call'.result
               /\ now - last_signal_time >= HourMinutes]_vars

C5_Witness ==
    /\ last_call.op = "can" /\ last_call.at = now
    /\ signal_count_last_hour = 0
    /\ recorded # {}
    /\ now >= LatestRecord + HourMinutes

Event(c, kind) ==
    [call |-> c, kind |-> kind, from |-> state, seq |-> 1 - last_event.seq]

ResetTimeoutElapsed_at_timeout == clock - last_failure_time >= reset_timeout

\* execute, line 55
ResetTimeoutElapsed == clock - last_failure_time > reset_timeout

\* execute, lines 53-68: the gate, up to the await of the wrapped function.
\* An open breaker rejects the call or, once the reset timeout has elapsed,
\* becomes half-open; in every other state the function is invoked.
ExecuteStart(c) ==
    /\ UNCHANGED outside_breaker
    /\ cpc[c] = "idle"
    /\ IF state = "open" /\ ~ResetTimeoutElapsed
       THEN /\ last_event' = Event(c, "rejected")
            /\ UNCHANGED <<clock, state, failure_count, last_failure_time,
                           cpc, trial, streak, trial_failed_at>>
       ELSE /\ state' = IF state = "open" THEN "half-open" ELSE state
            /\ trial' = IF state = "open" THEN c ELSE trial
            /\ cpc' = [cpc EXCEPT ![c] = "inflight"]
            /\ last_event' = Event(c, "invoked")
            /\ UNCHANGED <<clock, failure_count, last_failure_time, streak,
                           trial_failed_at>>

FailureCountAfterSuccess_keep(st, fc) == fc

FailureCountAfterSuccess_reset_always(st, fc) == 0

FailureCountAfterSuccess_decrement(st, fc) ==
    IF st = "half-open" \/ fc = 0 THEN 0 ELSE fc - 1

\* execute, lines 71-73
FailureCountAfterSuccess(st, fc) == IF st = "half-open" THEN 0 ELSE fc

\* execute, lines 70-76: the wrapped function returned.
ExecuteSuccess(c) ==
    /\ UNCHANGED outside_breaker
    /\ cpc[c] = "inflight"
    /\ failure_count' = FailureCountAfterSuccess(state, failure_count)
    /\ state' = IF state = "half-open" THEN "closed" ELSE state
    /\ streak' = IF state = "half-open" THEN 0 ELSE streak
    /\ cpc' = [cpc EXCEPT ![c] = "idle"]
    /\ trial' = IF trial = c THEN NoCaller ELSE trial
    /\ last_event' = Event(c, "succeeded")
    /\ UNCHANGED <<clock, last_failure_time, trial_failed_at>>

ThresholdReached_strict(fc) == fc > failure_threshold

\* execute, line 84
ThresholdReached(fc) == fc >= failure_threshold

LastFailureTimeAfterFailure_kept(lft, t) == lft

\* execute, line 81
LastFailureTimeAfterFailure(lft, t) == t

\* execute, lines 78-89: the wrapped function raised.
ExecuteFailure(c) ==
    /\ UNCHANGED outside_breaker
    /\ cpc[c] = "inflight"
    /\ failure_count' = failure_count + 1
    /\ last_failure_time' = LastFailureTimeAfterFailure(last_failure_time, clock)
    /\ trial_failed_at' = IF state = "half-open" THEN clock ELSE trial_failed_at
    /\ state' = IF ThresholdReached(failure_count') THEN "open" ELSE state
    /\ streak' = streak + 1
    /\ cpc' = [cpc EXCEPT ![c] = "idle"]
    /\ trial' = IF trial = c THEN NoCaller ELSE trial
    /\ last_event' = Event(c, "failed")
    /\ UNCHANGED clock

\* time.time() advances
ClockAdvance ==
    /\ UNCHANGED outside_breaker
    /\ clock + ClockTick <= MaxClock
    /\ clock' = clock + ClockTick
    /\ UNCHANGED <<state, failure_count, last_failure_time, cpc, trial,
                   streak, last_event, trial_failed_at>>

NextBreaker ==
    \/ \E c \in Calls : ExecuteStart(c) /\ UNCHANGED retry_vars
    \/ \E c \in Calls : ExecuteSuccess(c) /\ UNCHANGED retry_vars
    \/ \E c \in Calls : ExecuteFailure(c) /\ UNCHANGED retry_vars
    \/ ClockAdvance /\ UNCHANGED retry_vars

SpecBreaker == Init /\ [][NextBreaker]_vars

\* ----------------------------------------------------- retry_with_backoff
\* async_wrapper is entered (lines 105-107); sync_wrapper (lines 128-150) is
\* the same code with time.sleep for asyncio.sleep.
RetryWrapperCall(f, mr, d0, bf) ==
    /\ UNCHANGED outside_retry
    /\ rpc = "idle"
    /\ rpc' = "attempt"
    /\ rfunc' = f
    /\ max_retries' = mr
    /\ initial_delay' = d0
    /\ backoff_factor' = bf
    /\ retry' = 0
    /\ delay' = d0
    /\ invocations' = 0
    /\ sleeps' = << >>
    /\ routcome' = "none"

\* async_wrapper, lines 110-111: the wrapped function returned.
AttemptReturns ==
    /\ UNCHANGED <<outside_retry, breaker_vars>>
    /\ rpc = "attempt"
    /\ rfunc \in RaisingFunctions
    /\ invocations' = invocations + 1
    /\ rpc' = "idle"
    /\ routcome' = "returned"
    /\ UNCHANGED <<rfunc, max_retries, initial_delay, backoff_factor, retry,
                   delay, sleeps>>

RetryExhausted_one_later(r, mr) == r = mr + 1

\* async_wrapper, line 114
RetryExhausted(r, mr) == r = mr

\* async_wrapper, lines 112-119: the wrapped function raised; the error is
\* raised again on the last pass of the loop, otherwise the sleep begins.
AttemptRaises ==
    /\ UNCHANGED <<outside_retry, breaker_vars>>
    /\ rpc = "attempt"
    /\ rfunc \in RaisingFunctions
    /\ invocations' = invocations + 1
    /\ IF RetryExhausted(retry, max_retries)
       THEN rpc' = "idle" /\ routcome' = "raised"
       ELSE rpc' = "sleeping" /\ routcome' = routcome
    /\ UNCHANGED <<rfunc, max_retries, initial_delay, backoff_factor, retry,
                   delay, sleeps>>

DelayAfterSleep_additive(d, bf) == d + bf

\* async_wrapper, line 123
DelayAfterSleep(d, bf) == d * bf

\* async_wrapper, lines 122-123 and the next pass of the loop: the sleep is
\* over.
SleepDone ==
    /\ UNCHANGED <<outside_retry, breaker_vars>>
    /\ rpc = "sleeping"
    /\ sleeps' = Append(sleeps, delay)
    /\ delay' = DelayAfterSleep(delay, backoff_factor)
    /\ retry' = retry + 1
    /\ rpc' = "attempt"
    /\ UNCHANGED <<rfunc, max_retries, initial_delay, backoff_factor,
                   invocations, routcome>>

NextRetry ==
    \/ \E f \in RaisingFunctions, mr \in 0..MaxRetries,
          d0 \in 1..MaxInitialDelay, bf \in 1..MaxBackoffFactor :
            RetryWrapperCall(f, mr, d0, bf) /\ UNCHANGED breaker_vars
    \/ AttemptReturns
    \/ AttemptRaises
    \/ SleepDone

SpecRetry == Init /\ [][NextRetry]_vars

\* ------------------------- an adapter method under retry and the breaker
\* get_token_liquidity, lines 608-655: the body catches every error of its
\* web3 calls and returns the default 0.0 to the wrapper.
AdapterBodyFails ==
    /\ UNCHANGED <<outside_retry, breaker_vars>>
    /\ rpc = "attempt"
    /\ rfunc = AdapterFunction
    /\ invocations' = invocations + 1
    /\ rpc' = "idle"
    /\ routcome' = "default"
    /\ UNCHANGED <<rfunc, max_retries, initial_delay, backoff_factor, retry,
                   delay, sleeps>>

\* get_token_liquidity, line 646, and get_eth_price_usd, lines 419-424 (no
\* cached price): the body reaches execute().  When the breaker rejects the
\* call, get_eth_price_usd catches the error and returns the fallback price,
\* with which the body returns a liquidity to the wrapper.
AdapterGate ==
    /\ rpc = "attempt"
    /\ rfunc = AdapterFunction
    /\ ExecuteStart(RetryCaller)
    /\ invocations' = invocations + 1
    /\ IF last_event'.kind = "rejected"
       THEN rpc' = "idle" /\ routcome' = "returned_with_fallback_price"
       ELSE rpc' = "fetching" /\ routcome' = routcome
    /\ UNCHANGED <<rfunc, max_retries, initial_delay, backoff_factor, retry,
                   delay, sleeps>>

\* _fetch_eth_price_usd returned (lines 436-467 return a price or, on any
\* error of the requests, the fallback price) and so do execute(),
\* get_eth_price_usd and the body.
AdapterFetched ==
    /\ rpc = "fetching"
    /\ ExecuteSuccess(RetryCaller)
    /\ rpc' = "idle"
    /\ routcome' = "returned"
    /\ UNCHANGED <<rfunc, max_retries, initial_delay, backoff_factor, retry,
                   delay, invocations, sleeps>>

\* _fetch_eth_price_usd raised (lines 433-434, the creation of the HTTP
\* session, are outside its try): execute() records the failure and raises,
\* get_eth_price_usd catches the error and returns the fallback price.
AdapterFetchRaises ==
    /\ rpc = "fetching"
    /\ ExecuteFailure(RetryCaller)
    /\ rpc' = "idle"
    /\ routcome' = "returned_with_fallback_price"
    /\ UNCHANGED <<rfunc, max_retries, initial_delay, backoff_factor, retry,
                   delay, invocations, sleeps>>

\* The calls c other than RetryCaller are the execute() calls of
\* get_eth_price_usd made by other tasks at the same time.
NextGated ==
    \/ RetryWrapperCall(AdapterFunction, ADAPTER_MAX_RETRIES,
                        ADAPTER_INITIAL_DELAY, DEFAULT_BACKOFF_FACTOR)
          /\ UNCHANGED breaker_vars
    \/ AdapterBodyFails
    \/ AdapterGate
    \/ AdapterFetched
    \/ AdapterFetchRaises
    \/ \E c \in Calls \ {RetryCaller} : ExecuteStart(c) /\ UNCHANGED retry_vars
    \/ \E c \in Calls \ {RetryCaller} : ExecuteSuccess(c) /\ UNCHANGED retry_vars
    \/ \E c \in Calls \ {RetryCaller} : ExecuteFailure(c) /\ UNCHANGED retry_vars
    \/ ClockAdvance /\ UNCHANGED retry_vars

SpecGated == Init /\ [][NextGated]_vars

\* --------------------------------------------------------- ScannerService
\* the lists a scan of adapter a may return
Candidates(a) == {[blockchain |-> a, address |-> x] : x \in ScanAddresses}
ScanLists(a) == UNION {[1..n -> Candidates(a)] : n \in 0..MaxScanLen}
GateLists(a) == {<<[blockchain |-> a, address |-> "0xab"]>>}

\* initialize, lines 34-56: the adapters in S initialized successfully.
ScannersInitialize(S) ==
    /\ UNCHANGED outside_scan
    /\ scanners = {}
    /\ \A cy \in Cycles : cyc[cy] # "gathering"
    /\ scanners' = S
    /\ UNCHANGED <<scan_semaphore, cyc, spc, tres, all_tokens, ppc, sraised>>

\* scan_all_blockchains, lines 92-102: with no scanner the call returns [],
\* otherwise one scan_blockchain task per scanner is gathered.
ScanAllBlockchainsCall(cy) ==
    /\ cyc[cy] # "gathering"
    /\ cyc' = [cyc EXCEPT ![cy] = IF scanners = {} THEN "returned"
                                                  ELSE "gathering"]
    /\ spc' = [spc EXCEPT ![cy] =
                 [a \in Adapters |-> IF a \in scanners THEN "waiting"
                                                       ELSE "none"]]
    /\ tres' = [tres EXCEPT ![cy] = [a \in Adapters |-> << >>]]
    /\ sraised' = [sraised EXCEPT ![cy] = [a \in Adapters |-> FALSE]]
    /\ all_tokens' = [all_tokens EXCEPT ![cy] = << >>]
    /\ UNCHANGED <<scanners, scan_semaphore, ppc>>

\* a scan_all_blockchains call of a caller outside the service loop
ScanAllBlockchains(cy) ==
    /\ UNCHANGED outside_scan
    /\ ScanAllBlockchainsCall(cy)

SemaphoreFree_always(permits) == TRUE

\* async with self.scan_semaphore (lines 125, 177): a permit is free
SemaphoreFree(permits) == permits > 0

\* scan_blockchain, lines 125-133: the task enters the gate and awaits the
\* scan of its adapter.
ScanEnter(cy, a) ==
    /\ UNCHANGED outside_scan
    /\ spc[cy][a] = "waiting"
    /\ SemaphoreFree(scan_semaphore)
    /\ scan_semaphore' = scan_semaphore - 1
    /\ spc' = [spc EXCEPT ![cy][a] = "scanning"]
    /\ UNCHANGED <<scanners, cyc, tres, all_tokens, ppc, sraised>>

\* scan_blockchain, lines 133-135: the scan returned toks; the gate is left.
ScanReturns(cy, a, toks) ==
    /\ UNCHANGED outside_scan
    /\ spc[cy][a] = "scanning"
    /\ tres' = [tres EXCEPT ![cy][a] = toks]
    /\ scan_semaphore' = scan_semaphore + 1
    /\ spc' = [spc EXCEPT ![cy][a] = "done"]
    /\ UNCHANGED <<scanners, cyc, all_tokens, ppc, sraised>>

\* scan_blockchain, lines 136-138: the scan raised; the task returns [].
ScanRaises(cy, a) ==
    /\ UNCHANGED outside_scan
    /\ spc[cy][a] = "scanning"
    /\ tres' = [tres EXCEPT ![cy][a] = << >>]
    /\ sraised' = [sraised EXCEPT ![cy][a] = TRUE]
    /\ scan_semaphore' = scan_semaphore + 1
    /\ spc' = [spc EXCEPT ![cy][a] = "done"]
    /\ UNCHANGED <<scanners, cyc, all_tokens, ppc>>

RECURSIVE MergeResults_last_only(_, _)
MergeResults_last_only(res, i) ==
    IF i > Len(AdapterOrder) THEN << >>
    ELSE IF i = Len(AdapterOrder) THEN res[AdapterOrder[i]]
    ELSE MergeResults_last_only(res, i + 1)

\* scan_all_blockchains, lines 105-110: the results of the tasks, from the
\* i-th on, appended in the order of the tasks (the task of an adapter that
\* is not registered does not exist and has the result << >> here).
RECURSIVE MergeResults(_, _)
MergeResults(res, i) ==
    IF i > Len(AdapterOrder) THEN << >>
    ELSE res[AdapterOrder[i]] \o MergeResults(res, i + 1)

\* scan_all_blockchains, lines 102-113: every task has finished.
GatherReturns(cy) ==
    /\ cyc[cy] = "gathering"
    /\ \A a \in Adapters : spc[cy][a] \in {"none", "done"}
    /\ all_tokens' = [all_tokens EXCEPT ![cy] = MergeResults(tres[cy], 1)]
    /\ cyc' = [cyc EXCEPT ![cy] = "returned"]
    /\ UNCHANGED <<scanners, scan_semaphore, spc, tres, ppc, sraised>>

\* the gather of a scan_all_blockchains call of a caller outside the loop
GatherDone(cy) ==
    /\ UNCHANGED outside_scan
    /\ GatherReturns(cy)

\* process_tokens_in_parallel, lines 173-184, called with n tokens: one
\* process_with_limit task per token.
ProcessTokensInParallel(n) ==
    /\ UNCHANGED outside_scan
    /\ \A p \in Procs : ppc[p] \in {"none", "done"}
    /\ ppc' = [p \in Procs |-> IF p <= n THEN "waiting" ELSE "none"]
    /\ UNCHANGED <<scanners, scan_semaphore, cyc, spc, tres, all_tokens,
                   sraised>>

\* process_with_limit, lines 177-178: the task enters the gate and awaits
\* the processor.
ProcEnter(p) ==
    /\ UNCHANGED outside_scan
    /\ ppc[p] = "waiting"
    /\ SemaphoreFree(scan_semaphore)
    /\ scan_semaphore' = scan_semaphore - 1
    /\ ppc' = [ppc EXCEPT ![p] = "processing"]
    /\ UNCHANGED <<scanners, cyc, spc, tres, all_tokens, sraised>>

\* process_with_limit, line 178: the processor returned or raised; either
\* way the gate is left.
ProcLeave(p) ==
    /\ UNCHANGED outside_scan
    /\ ppc[p] = "processing"
    /\ scan_semaphore' = scan_semaphore + 1
    /\ ppc' = [ppc EXCEPT ![p] = "done"]
    /\ UNCHANGED <<scanners, cyc, spc, tres, all_tokens, sraised>>

\* one scan_all_blockchains call at a time, with the lists the scans return
NextScan ==
    \/ \E S \in SUBSET Adapters : ScannersInitialize(S)
    \/ ScanAllBlockchains(1)
    \/ \E a \in Adapters : ScanEnter(1, a)
    \/ \E a \in Adapters : \E toks \in ScanLists(a) : ScanReturns(1, a, toks)
    \/ \E a \in Adapters : ScanRaises(1, a)
    \/ GatherDone(1)

SpecScan == Init /\ [][NextScan]_vars

\* overlapping scan_all_blockchains calls (the loop of ScannerService.start
\* and the one of ScoringService.start) and a process_tokens_in_parallel
\* call, all on the one scan_semaphore
NextGate ==
    \/ \E S \in SUBSET Adapters : ScannersInitialize(S)
    \/ \E cy \in Cycles : ScanAllBlockchains(cy)
    \/ \E cy \in Cycles, a \in Adapters : ScanEnter(cy, a)
    \/ \E cy \in Cycles, a \in Adapters :
          \E toks \in GateLists(a) : ScanReturns(cy, a, toks)
    \/ \E cy \in Cycles, a \in Adapters : ScanRaises(cy, a)
    \/ \E cy \in Cycles : GatherDone(cy)
    \/ \E n \in 1..NumProcs : ProcessTokensInParallel(n)
    \/ \E p \in Procs : ProcEnter(p)
    \/ \E p \in Procs : ProcLeave(p)

SpecGate == Init /\ [][NextGate]_vars

\* ------------------------------------ EthereumScanner.scan_for_new_tokens
\* scan_for_new_tokens, lines 186-221: the scanner is initialized and the
\* PairCreated events were fetched, n of them pairs with WETH.
ScanForNewTokens(n) ==
    /\ UNCHANGED outside_enrich
    /\ epc # "looping"
    /\ epc' = "looping"
    /\ events_left' = n
    /\ new_tokens' = << >>
    /\ enriched' = << >>
    /\ scan_result' = << >>

\* scan_for_new_tokens, lines 186-188 and 245-247: the scanner is not
\* initialized, or fetching the block number or the events raised.
ScanSetupFails ==
    /\ UNCHANGED outside_enrich
    /\ epc # "looping"
    /\ epc' = "returned"
    /\ scan_result' = << >>
    /\ new_tokens' = << >>
    /\ enriched' = << >>
    /\ UNCHANGED events_left

BuySellRatio_zero(failed, r) == IF failed THEN 0 ELSE r

\* get_buy_sell_ratio, lines 738-753: the ratio looked up or, when the
\* lookup failed, the neutral default.
BuySellRatio(failed, r) == IF failed THEN NEUTRAL_RATIO ELSE r

\* is_meme_token (lines 922-944) and get_token_details (lines 261-296) for
\* one token: both catch every error; is_meme_token then says False and
\* get_token_details returns {}, otherwise the details are returned.
TokenDetails(addr, outcome, r) ==
    IF outcome \in {"ratio_failed", "ok"}
    THEN <<[address |-> addr,
            buy_sell_ratio |-> BuySellRatio(outcome = "ratio_failed", r)]>>
    ELSE << >>

NewTokensAfterVisit_drop_all(toks, details) ==
    IF details = << >> THEN << >> ELSE toks \o details

\* scan_for_new_tokens, lines 236-241
NewTokensAfterVisit(toks, details) == toks \o details

\* scan_for_new_tokens, lines 222-241: one pass of the loop.
VisitToken(addr, outcome, r) ==
    /\ UNCHANGED outside_enrich
    /\ epc = "looping"
    /\ events_left > 0
    /\ events_left' = events_left - 1
    /\ new_tokens' = NewTokensAfterVisit(new_tokens,
                                         TokenDetails(addr, outcome, r))
    /\ enriched' = IF outcome \in {"ratio_failed", "ok"}
                   THEN Append(enriched, [address |-> addr,
                                          ratio_failed |-> outcome # "ok",
                                          ratio |-> r])
                   ELSE enriched
    /\ UNCHANGED <<epc, scan_result>>

\* scan_for_new_tokens, line 243
ScanLoopEnds ==
    /\ UNCHANGED outside_enrich
    /\ epc = "looping"
    /\ events_left = 0
    /\ epc' = "returned"
    /\ scan_result' = new_tokens
    /\ UNCHANGED <<events_left, new_tokens, enriched>>

NextEnrich ==
    \/ \E n \in 0..MaxEvents : ScanForNewTokens(n)
    \/ ScanSetupFails
    \/ \E addr \in ScanAddresses, outcome \in EnrichmentOutcomes,
          r \in Ratios : VisitToken(addr, outcome, r)
    \/ ScanLoopEnds

SpecEnrich == Init /\ [][NextEnrich]_vars

\* ------------------------------------- ScoringService.process_new_tokens
\* the lists a scan_all_blockchains call may return
CycleLists == UNION {[1..n -> CycleCandidates] : n \in 0..MaxCycleLen}

CandidatesOf(toks) == {toks[i] : i \in 1..Len(toks)}

\* process_new_tokens, lines 73-89, in the loop of start(): the scan of the
\* cycle returned toks; the cycle ends when the list is empty.
CycleScan(toks) ==
    /\ UNCHANGED <<outside_cycle, signal_vars>>
    /\ cpos = "idle"
    /\ pc[CycleTask] = "idle"
    /\ cyc_tokens' = toks
    /\ scanned' = CandidatesOf(toks)
    /\ cpos' = IF toks = << >> THEN "idle" ELSE "filtering"
    /\ scores' = << >>
    /\ cyc_rest' = << >>
    /\ to_send' = << >>
    /\ filter_passed' = {}
    /\ own_score' = << >>
    /\ accepted' = {}
    /\ dispatched' = << >>


FilteredTokens_all(toks, pass) == toks

\* apply_filters_in_parallel (filters/service.py, lines 94-115): the tokens
\* for which apply_filters_to_token said True, in the order of the list;
\* pass is the set of candidates that every filter lets through.
RECURSIVE FilteredTokens(_, _)
FilteredTokens(toks, pass) ==
    IF toks = << >> THEN << >>
    ELSE (IF Head(toks) \in pass THEN <<Head(toks)>> ELSE << >>)
            \o FilteredTokens(Tail(toks), pass)

\* process_new_tokens, lines 91-97
CycleFilter(pass) ==
    /\ UNCHANGED <<outside_cycle, signal_vars>>
    /\ cpos = "filtering"
    /\ cyc_tokens' = FilteredTokens(cyc_tokens, pass)
    /\ filter_passed' = pass
    /\ cpos' = IF cyc_tokens' = << >> THEN "idle" ELSE "scoring"
    /\ UNCHANGED <<scores, cyc_rest, to_send, scanned, own_score, accepted,
                   dispatched>>

\* token_scorer.score_token(token), called at line 122.  The TokenScorer of
\* scoring/scorer.py defines no such method, so with that class the call
\* raises (NoScore) for every token; a scorer that has the method returns
\* the candidate's weighted total.
ScorerOutcomes == Totals \cup {NoScore}

\* ScoringService.score_token, lines 120-131: the dictionary for one
\* candidate, {address: scores} or, when scoring raised, {}.
ScoreToken(c, total) ==
    IF total = NoScore THEN << >> ELSE [a \in {c.address} |-> total]

\* score_tokens_in_parallel, lines 160-167: all_scores.update(result) for
\* the result of every token, in the order of the list.
RECURSIVE AllScores(_, _, _)
AllScores(toks, out, acc) ==
    IF toks = << >> THEN acc
    ELSE LET r == ScoreToken(Head(toks), out[Head(toks)])
         IN AllScores(Tail(toks), out,
                      [a \in DOMAIN acc \cup DOMAIN r |->
                          IF a \in DOMAIN r THEN r[a] ELSE acc[a]])

\* process_new_tokens, line 100
CycleScore(out) ==
    /\ UNCHANGED <<outside_cycle, signal_vars>>
    /\ cpos = "scoring"
    /\ scores' = AllScores(cyc_tokens, out, << >>)
    /\ own_score' = out
    /\ cpos' = "scored"
    /\ UNCHANGED <<cyc_tokens, cyc_rest, to_send, scanned, filter_passed, accepted,
                   dispatched>>

\* generate_signals, lines 105-106: scores.get(address, {}).get("total", 0.0)
ScoreOf(addr) == IF addr \in DOMAIN scores THEN scores[addr] ELSE 0

\* process_new_tokens goes on until process_tokens has returned; its
\* locals end with it.
CposAfter == IF pc'[CycleTask] = "idle" THEN "idle" ELSE "processing"

CycleLocalsAfter ==
    /\ cyc_tokens' = IF pc'[CycleTask] = "idle" THEN << >> ELSE cyc_tokens
    /\ scores' = IF pc'[CycleTask] = "idle" THEN << >> ELSE scores

\* process_new_tokens, lines 103-104: process_tokens is called with the
\* filtered tokens and the scores.
CycleProcessTokens ==
    /\ cpos = "scored"
    /\ ProcessTokens(CycleTask, Len(cyc_tokens))
    /\ cyc_rest' = IF pc'[CycleTask] = "idle" THEN << >> ELSE cyc_tokens
    /\ cpos' = CposAfter
    /\ CycleLocalsAfter
    /\ UNCHANGED <<to_send, scanned, filter_passed, own_score, accepted,
                   dispatched>>

\* generate_signals on the next token of the list, up to the throttle check
CycleCheckToken ==
    /\ cpos = "processing"
    /\ cyc_rest # << >>
    /\ CheckToken(CycleTask, <<Head(cyc_rest).address, ScoreOf(Head(cyc_rest).address)>>)
    /\ cyc_rest' = IF passed'[CycleTask] # NoAddress THEN cyc_rest ELSE Tail(cyc_rest)
    /\ cpos' = CposAfter
    /\ CycleLocalsAfter
    /\ UNCHANGED <<to_send, scanned, filter_passed, own_score, accepted,
                   dispatched>>

\* generate_signals: the signal of the token is created and recorded
CycleRecordToken ==
    /\ cpos = "processing"
    /\ cyc_rest # << >>
    /\ RecordToken(CycleTask)
    /\ accepted' = accepted \cup {Head(cyc_rest)}
    /\ to_send' = Append(to_send, Head(cyc_rest))
    /\ cyc_rest' = Tail(cyc_rest)
    /\ cpos' = CposAfter
    /\ CycleLocalsAfter
    /\ UNCHANGED <<scanned, filter_passed, own_score, dispatched>>

\* process_tokens, lines 74-76: the next signal is handed to send_signal
CycleSendSignal(raised) ==
    /\ cpos = "processing"
    /\ to_send # << >>
    /\ SendSignal(CycleTask, raised)
    /\ dispatched' = Append(dispatched, Head(to_send))
    /\ to_send' = IF raised THEN << >> ELSE Tail(to_send)
    /\ cpos' = CposAfter
    /\ CycleLocalsAfter
    /\ UNCHANGED <<cyc_rest, scanned, filter_passed, own_score, accepted>>

NextCycle ==
    \/ Initialize /\ UNCHANGED cycle_vars
    \/ StartService /\ UNCHANGED cycle_vars
    \/ StopService /\ UNCHANGED cycle_vars
    \/ Tick /\ UNCHANGED cycle_vars
    \/ \E toks \in CycleLists : CycleScan(toks)
    \/ \E pass \in SUBSET scanned : CycleFilter(pass)
    \/ \E out \in [CandidatesOf(cyc_tokens) -> ScorerOutcomes] :
          CycleScore(out)
    \/ CycleProcessTokens
    \/ CycleCheckToken
    \/ CycleRecordToken
    \/ \E raised \in BOOLEAN : CycleSendSignal(raised)

SpecCycle == Init /\ [][NextCycle]_vars

\* ---------------------------------------------------------- FilterService
\* LiquidityFilter.apply, line 48: token.get("liquidity_usd", 0.0)
LiquidityOf(tok) == IF tok.has_liquidity THEN tok.liquidity_usd ELSE 0

LiquidityFilterApply_at_floor(tok) == ~(LiquidityOf(tok) <= MINIMUM_LIQUIDITY_USD)

\* LiquidityFilter.apply, lines 50-54
LiquidityFilterApply(tok) == ~(LiquidityOf(tok) < MINIMUM_LIQUIDITY_USD)

SafetyIsSafe_default_unsafe(tok) ==
    IF tok.has_safety /\ tok.is_safe # "absent" THEN tok.is_safe = "true"
    ELSE FALSE

\* SafetyFilter.apply, lines 39-42: token.get("safety", {}).get("is_safe", True)
SafetyIsSafe(tok) ==
    IF tok.has_safety /\ tok.is_safe # "absent" THEN tok.is_safe = "true"
    ELSE TRUE

\* SafetyFilter.apply, line 47: safety_info.get("risk_level", "unknown")
SafetyRiskLevel(tok) ==
    IF tok.has_safety /\ tok.risk_level # "absent" THEN tok.risk_level
    ELSE "unknown"

\* SafetyFilter.apply, lines 42-52
SafetyFilterApply(tok) ==
    IF ~SafetyIsSafe(tok) THEN FALSE
    ELSE IF SafetyRiskLevel(tok) = "high" THEN FALSE
    ELSE TRUE

\* filter_instance.apply(token) for the filter of that name.  No token of
\* FilterTokens makes either filter raise, so the except branch of
\* apply_filters_to_token (lines 71-73) is not taken.
FilterApply(name, tok) ==
    IF name = "Liquidity Filter" THEN LiquidityFilterApply(tok)
    ELSE SafetyFilterApply(tok)

\* apply_filters_to_token is called with tok (line 66, before the loop)
ApplyFiltersToToken(tok) ==
    /\ UNCHANGED outside_filter
    /\ fpos = 0
    /\ ftok' = tok
    /\ fpos' = 1
    /\ evaluated' = << >>
    /\ fresult' = "none"
    /\ rejected_by' = NoFilter

FilterPosAfter_no_short_circuit(pos, ok) ==
    IF pos < Len(FilterOrder) THEN pos + 1 ELSE 0

\* apply_filters_to_token, lines 66-75: the loop goes on to the next filter
\* when this one passed and is not the last; otherwise the call returns.
FilterPosAfter(pos, ok) ==
    IF ok /\ pos < Len(FilterOrder) THEN pos + 1 ELSE 0

\* apply_filters_to_token, lines 66-75: one turn of the loop
FilterStep ==
    /\ UNCHANGED outside_filter
    /\ fpos \in 1..Len(FilterOrder)
    /\ LET f == FilterOrder[fpos]
           ok == FilterApply(f, ftok)
       IN /\ evaluated' = Append(evaluated, f)
          /\ fpos' = FilterPosAfter(fpos, ok)
          /\ fresult' = IF ~ok THEN "reject"
                        ELSE IF fpos' = 0 THEN "pass" ELSE fresult
          /\ rejected_by' = IF ~ok THEN f ELSE rejected_by
    /\ UNCHANGED ftok

NextFilter ==
    \/ \E tok \in FilterTokens : ApplyFiltersToToken(tok)
    \/ FilterStep

SpecFilter == Init /\ [][NextFilter]_vars

\* ------------------------------------------------------------ TokenScorer
Min2(a, b) == IF a <= b THEN a ELSE b

\* _calculate_token_scores, lines 95-102 and 105-112: the score of a value
\* against its minimum
ThresholdScore(v, minimum) ==
    IF v >= minimum
    THEN 15 * Milli + (IF v - minimum >= 9 * minimum THEN 10 * Milli
                       ELSE (10 * Milli * (v - minimum)) \div (9 * minimum))
    ELSE (15 * Milli * v) \div minimum

\* lines 135-139
SocialScore(mentions, influencers, sentiment) ==
    Min2(15 * Milli, mentions * 1500) + Min2(5 * Milli, influencers * 2500)
        + (5 * Milli * (sentiment + 10)) \div 20

\* lines 143-147: the base score from the audit, zero for a honeypot
SafetyBase(tok) ==
    IF tok.is_honeypot THEN 0 ELSE (tok.contract_audit_score * Milli) \div 4

\* lines 150-151 and 154-155: a bonus of 5 points, capped at 25
WithBonus(score, granted) ==
    IF granted THEN Min2(25 * Milli, score + 5 * Milli) ELSE score

\* lines 158-160
WithHolderBonus(score, holders) ==
    IF holders >= MIN_HOLDERS
    THEN Min2(25 * Milli,
              score + Min2(5 * Milli, ((holders - MIN_HOLDERS) * Milli) \div 200))
    ELSE score

\* lines 141-162
SafetyScore(tok) ==
    WithHolderBonus(
        WithBonus(WithBonus(SafetyBase(tok), tok.contract_verified),
                  tok.buy_sell_ratio >= BUY_SELL_RATIO_THRESHOLD),
        tok.holders_count)

\* _calculate_token_scores, lines 86-172
CalculateTokenScores(tok) ==
    LET l == ThresholdScore(tok.liquidity_usd, MIN_LIQUIDITY_USD)
        v == ThresholdScore(tok.volume_24h_usd, MIN_VOLUME_24H)
        so == SocialScore(tok.recent_mentions_count,
                          tok.influencer_mentions_count, tok.avg_sentiment)
        sa == SafetyScore(tok)
    IN [liquidity_score |-> l, volume_score |-> v, social_score |-> so,
        safety_score |-> sa, total_score |-> l + v + so + sa]

\* score_tokens, line 46: _calculate_token_scores is called for a token
ScoreCall(tok) ==
    /\ score_pc = "idle"
    /\ UNCHANGED outside_scorer
    /\ score_pc' = "called"
    /\ scored_token' = tok
    /\ token_scores' = NoScores

\* _calculate_token_scores returns the dictionary
ScoreReturn ==
    /\ score_pc = "called"
    /\ UNCHANGED outside_scorer
    /\ score_pc' = "returned"
    /\ token_scores' = CalculateTokenScores(scored_token)
    /\ UNCHANGED scored_token

NextScorer ==
    \/ \E tok \in ScoredTokens : ScoreCall(tok)
    \/ ScoreReturn

SpecScorer == Init /\ [][NextScorer]_vars

\* ------------------------------------------------------------------ Cache
\* json.dumps and json.loads on the values the adapters cache (numbers,
\* booleans, dictionaries with string keys)
JsonDumps(v) == <<"json", v>>
JsonLoads(ser) == ser[2]

Without(f, k) == [x \in DOMAIN f \ {k} |-> f[x]]
With(f, k, e) == [x \in DOMAIN f \cup {k} |-> IF x = k THEN e ELSE f[x]]

\* the Redis server: GET of a key gives its value until its time to live
\* has run out
RedisGet(store, k, t) ==
    IF k \in DOMAIN store /\ t < store[k].expires_at THEN store[k].value
    ELSE Nil

ServedByRedis_during_outage(k) ==
    cache_mode = "redis" /\ RedisGet(redis_store, k, ctime) # Nil

\* get, lines 59-65: the value Redis gave, when Redis is used, answered
\* and held the key
ServedByRedis(k) ==
    cache_mode = "redis" /\ redis_up /\ RedisGet(redis_store, k, ctime) # Nil

\* get, lines 68-77: the lookup in the in-memory cache
MemoryGet(mem, k, t) ==
    IF k \in DOMAIN mem /\ mem[k].expires_at > t THEN mem[k].value ELSE Miss

MemoryAfterGet_keep(mem, k, t) == mem

\* get, lines 73-75: an expired entry is removed
MemoryAfterGet(mem, k, t) ==
    IF k \in DOMAIN mem /\ ~(mem[k].expires_at > t) THEN Without(mem, k)
    ELSE mem

CacheOp(op, k, res) ==
    [op |-> op, key |-> k, at |-> ctime, result |-> res, raised |-> FALSE,
     backend_failed |-> cache_mode = "redis" /\ ~redis_up,
     seq |-> 1 - last_cache_op.seq]

\* Cache.__init__, lines 43-55: Redis is used when the package and the URL
\* are there and from_url did not raise
CacheConstruct(connected) ==
    /\ cache_mode = "new"
    /\ UNCHANGED outside_cache
    /\ cache_mode' = IF connected THEN "redis" ELSE "memory"
    /\ UNCHANGED <<redis_up, redis_store, memory_cache, ctime, last_cache_op,
                   latest>>

\* Cache.get, lines 57-77
CacheGetCall(k) ==
    /\ cache_mode # "new"
    /\ IF ServedByRedis(k)
       THEN /\ last_cache_op' =
                 CacheOp("get", k, JsonLoads(RedisGet(redis_store, k, ctime)))
            /\ UNCHANGED memory_cache
       ELSE /\ last_cache_op' = CacheOp("get", k, MemoryGet(memory_cache, k, ctime))
            /\ memory_cache' = MemoryAfterGet(memory_cache, k, ctime)
    /\ UNCHANGED <<cache_mode, redis_up, redis_store, ctime, latest>>

\* a get of a caller other than the cache_result wrapper
CacheGet(k) ==
    /\ UNCHANGED outside_cache
    /\ CacheGetCall(k)

\* Cache.set, lines 79-95
CacheSetCall(k, v, ttl) ==
    /\ cache_mode # "new"
    /\ IF cache_mode = "redis" /\ redis_up
       THEN /\ redis_store' = With(redis_store, k,
                    [value |-> JsonDumps(v), expires_at |-> ctime + ttl])
            /\ UNCHANGED memory_cache
       ELSE /\ memory_cache' = With(memory_cache, k,
                    [value |-> v, expires_at |-> ctime + ttl])
            /\ UNCHANGED redis_store
    /\ last_cache_op' = CacheOp("set", k, "True")
    /\ latest' = With(latest, k, [value |-> v, expires_at |-> ctime + ttl])
    /\ UNCHANGED <<cache_mode, redis_up, ctime>>

\* a set of a caller other than the cache_result wrapper
CacheSet(k, v, ttl) ==
    /\ UNCHANGED outside_cache
    /\ CacheSetCall(k, v, ttl)

\* Cache.delete, lines 97-109
CacheDelete(k) ==
    /\ cache_mode # "new"
    /\ UNCHANGED outside_cache
    /\ IF cache_mode = "redis" /\ redis_up
       THEN /\ redis_store' = Without(redis_store, k)
            /\ last_cache_op' = CacheOp("delete", k,
                    IF RedisGet(redis_store, k, ctime) # Nil THEN "True" ELSE "False")
            /\ UNCHANGED memory_cache
       ELSE /\ memory_cache' = Without(memory_cache, k)
            /\ last_cache_op' = CacheOp("delete", k,
                    IF k \in DOMAIN memory_cache THEN "True" ELSE "False")
            /\ UNCHANGED redis_store
    /\ latest' = Without(latest, k)
    /\ UNCHANGED <<cache_mode, redis_up, ctime>>

\* the Redis server stops answering: the commands of lines 61, 86 and 101
\* raise until it answers again
RedisFails ==
    /\ cache_mode = "redis"
    /\ redis_up
    /\ UNCHANGED outside_cache
    /\ redis_up' = FALSE
    /\ UNCHANGED <<cache_mode, redis_store, memory_cache, ctime, last_cache_op,
                   latest>>

RedisRecovers ==
    /\ cache_mode = "redis"
    /\ ~redis_up
    /\ UNCHANGED outside_cache
    /\ redis_up' = TRUE
    /\ UNCHANGED <<cache_mode, redis_store, memory_cache, ctime, last_cache_op,
                   latest>>

\* time passes; Redis drops the keys whose time to live has run out
CacheTick ==
    /\ cache_mode # "new"
    /\ ctime < MaxCacheTime
    /\ UNCHANGED outside_cache
    /\ ctime' = ctime + 1
    /\ redis_store' = [k \in {x \in DOMAIN redis_store :
                                  ctime + 1 < redis_store[x].expires_at}
                          |-> redis_store[k]]
    /\ UNCHANGED <<cache_mode, redis_up, memory_cache, last_cache_op, latest>>

NextCache ==
    \/ \E connected \in BOOLEAN : CacheConstruct(connected)
    \/ \E k \in CacheKeys : CacheGet(k)
    \/ \E k \in CacheKeys, v \in CacheValues, ttl \in CacheTtls : CacheSet(k, v, ttl)
    \/ \E k \in CacheKeys : CacheDelete(k)
    \/ RedisFails
    \/ RedisRecovers
    \/ CacheTick

SpecCache == Init /\ [][NextCache]_vars

\* -------------------------------------------------------- breaker claims
IsEvent(kind) == last_event' # last_event /\ last_event'.kind = kind

\* C7: while the breaker is open and clock - last_failure_time <=
\* reset_timeout, an execute() call is rejected and the wrapped function is
\* not invoked.
C7_OpenRejects ==
    [][(state = "open" /\ clock - last_failure_time <= reset_timeout)
         => /\ ~IsEvent("invoked")
            /\ \A c \in Calls : cpc[c] = "idle" => cpc'[c] = "idle"]_vars

C7_Witness ==
    /\ last_event.kind = "rejected"
    /\ state = "open"
    /\ clock > last_failure_time
    /\ clock - last_failure_time <= reset_timeout

\* C8: counted from a closed breaker with failure_count = 0, the failure
\* that makes failure_threshold leaves the breaker open, every earlier one
\* leaves it closed, and each sets last_failure_time to its time.
C8_OpensAtThreshold ==
    [][IsEvent("failed") =>
         /\ last_failure_time' = clock
         /\ streak' >= failure_threshold => state' = "open"
         /\ streak' < failure_threshold => state' = "closed"]_vars

C8_Witness ==
    /\ last_event.kind = "failed"
    /\ last_event.from = "closed"
    /\ streak = failure_threshold
    /\ state = "open"
    /\ last_failure_time = clock
    /\ clock > 0

\* C9: while the call that moved the breaker to half-open is in flight, no
\* other call is let through to the wrapped function.
C9_SingleTrial ==
    [][(trial # NoCaller /\ cpc[trial] = "inflight") => ~IsEvent("invoked")]_vars

\* C10: a successful call in half-open sets the breaker to closed with
\* failure_count = 0, and every step that sets the breaker to closed leaves
\* failure_count = 0.
C10_ClosedResetsCount ==
    [][/\ (IsEvent("succeeded") /\ state = "half-open")
            => (state' = "closed" /\ failure_count' = 0)
       /\ (state # "closed" /\ state' = "closed") => failure_count' = 0]_vars

C10_Witness ==
    /\ last_event.kind = "succeeded"
    /\ last_event.from = "half-open"
    /\ state = "closed"
    /\ failure_count = 0

\* C11: a call that fails while the breaker is half-open leaves the breaker
\* open with last_failure_time set to the time of the failure, and no call
\* is let through to the wrapped function while the time since that failure
\* is at most reset_timeout.
C11_FailedTrialReopens ==
    [][/\ (IsEvent("failed") /\ state = "half-open")
            => (state' = "open" /\ last_failure_time' = clock)
       /\ (trial_failed_at >= 0 /\ clock - trial_failed_at <= reset_timeout)
            => ~IsEvent("invoked")]_vars

C11_Witness ==
    /\ last_event.kind = "rejected"
    /\ state = "open"
    /\ trial_failed_at >= 0
    /\ clock - trial_failed_at = reset_timeout

\* ---------------------------------------------------------- retry claims
RECURSIVE Pow(_, _)
Pow(b, e) == IF e = 0 THEN 1 ELSE b * Pow(b, e - 1)

WrapperEnded == routcome \in {"returned", "raised"}

\* C12: when the breaker rejects the execute() call made for an attempt of
\* the retry-wrapped adapter call, that call ends at once with the
\* circuit-open error, without a sleep and without a further attempt.
C12_OpenCircuitEndsRetry ==
    [][(/\ rpc = "attempt"
        /\ IsEvent("rejected")
        /\ last_event'.call = RetryCaller)
         => /\ rpc' = "idle"
            /\ routcome' = "circuit_open"
            /\ sleeps' = sleeps]_vars

\* C13 as claimed: a wrapper call whose attempts all failed has invoked the
\* wrapped function at most max_retries times.
C13_AtMostMaxRetries ==
    routcome = "raised" => invocations <= max_retries

\* C13: a wrapper call invokes the wrapped function at most max_retries + 1
\* times; the error is raised at the failure of invocation max_retries + 1
\* and not before; an attempt that succeeds ends the call with its result;
\* after the call has ended the function is not invoked again.
C13_AtMostOnePlusMaxRetries ==
    [][/\ invocations' <= max_retries' + 1
       /\ (routcome # "raised" /\ routcome' = "raised")
            => (invocations' = invocations + 1
                /\ invocations' = max_retries + 1)
       /\ (rpc = "attempt" /\ invocations' = invocations + 1 /\ rpc' = "idle")
            => routcome' \in {"returned", "raised"}
       /\ WrapperEnded
            => \/ invocations' = invocations
               \/ (invocations' = 0 /\ routcome' = "none")]_vars

C13_Witness ==
    /\ routcome = "raised"
    /\ max_retries = MaxRetries
    /\ invocations = MaxRetries + 1

\* C14: the k-th sleep of a wrapper call, taken after its k-th failed
\* attempt, lasts initial_delay * backoff_factor^(k-1); a call that has
\* ended, with a result or with the error of its last attempt, took one
\* sleep fewer than it made attempts.
C14_BackoffSchedule ==
    /\ \A k \in 1..Len(sleeps) :
          sleeps[k] = initial_delay * Pow(backoff_factor, k - 1)
    /\ rpc = "attempt" => Len(sleeps) = invocations
    /\ rpc = "sleeping" => Len(sleeps) = invocations - 1
    /\ WrapperEnded => Len(sleeps) = invocations - 1

C14_Witness ==
    /\ routcome = "raised"
    /\ initial_delay = 2
    /\ backoff_factor = 3
    /\ Len(sleeps) = 3
    /\ sleeps[3] = 18

\* C15: an adapter call that ends with the default, its network portion
\* having failed, has made the attempts of its retry budget.
C15_FailureRetriedBeforeDefault ==
    routcome = "default" => invocations >= max_retries

\* -------------------------------------------------------- scanner claims
CandidateKey(c) == <<c.blockchain, IdentityKey(c.address)>>

RECURSIVE ReturnedByOthers(_, _)
ReturnedByOthers(cy, i) ==
    IF i > Len(AdapterOrder) THEN << >>
    ELSE (IF sraised[cy][AdapterOrder[i]] THEN << >>
          ELSE tres[cy][AdapterOrder[i]]) \o ReturnedByOthers(cy, i + 1)

InsideGate ==
    Cardinality({ca \in Cycles \X Adapters : spc[ca[1]][ca[2]] = "scanning"})
      + Cardinality({p \in Procs : ppc[p] = "processing"})

\* C16: the list a scan_all_blockchains call returned holds no two entries
\* with the same identity key (chain, case-normalized address).
C16_MergedListDeduplicated ==
    \A cy \in Cycles :
       cyc[cy] = "returned" =>
          \A i, j \in 1..Len(all_tokens[cy]) :
             i # j => CandidateKey(all_tokens[cy][i])
                        # CandidateKey(all_tokens[cy][j])

\* C17: a scan_all_blockchains call returns only when the scan of every
\* registered adapter has ended, and the list it returns is made of the
\* lists returned by the adapters whose scan did not raise, in the order of
\* the adapters, with nothing from an adapter whose scan raised.
C17_FailedAdapterIsolated ==
    \A cy \in Cycles :
       cyc[cy] = "returned" =>
          /\ \A a \in scanners : spc[cy][a] = "done" \/ spc[cy][a] = "none"
          /\ (\E a \in Adapters : spc[cy][a] = "done") =>
                /\ \A a \in scanners : spc[cy][a] = "done"
                /\ all_tokens[cy] = ReturnedByOthers(cy, 1)

C17_Witness ==
    /\ cyc[1] = "returned"
    /\ sraised[1]["ethereum"]
    /\ ~sraised[1]["solana"]
    /\ spc[1]["solana"] = "done"
    /\ Len(all_tokens[1]) = MaxScanLen

\* C18: the tasks inside the scan gate, scans and token processors
\* together, are never more than max_concurrent_scans.
C18_GateBound ==
    InsideGate <= MAX_CONCURRENT_SCANS

C18_Witness ==
    /\ InsideGate = MAX_CONCURRENT_SCANS
    /\ \E cy \in Cycles, a \in Adapters : spc[cy][a] = "scanning"
    /\ \E p \in Procs : ppc[p] = "processing"
    /\ \E cy \in Cycles, a \in Adapters : spc[cy][a] = "waiting"
    /\ \E p \in Procs : ppc[p] = "waiting"
    /\ \A cy \in Cycles : cyc[cy] = "gathering"

\* C19: the list scan_for_new_tokens returns holds, in order, every token
\* of the scan whose own enrichment gave details, whatever happened to the
\* enrichment of the other tokens; a token whose buy/sell-ratio lookup
\* failed carries the neutral ratio 1.0, every other one the ratio looked
\* up.
C19_FailedEnrichmentIsolated ==
    epc = "returned" =>
       /\ Len(scan_result) = Len(enriched)
       /\ \A i \in 1..Len(enriched) :
             /\ scan_result[i].address = enriched[i].address
             /\ scan_result[i].buy_sell_ratio =
                   IF enriched[i].ratio_failed THEN NEUTRAL_RATIO
                                               ELSE enriched[i].ratio

C19_Witness ==
    /\ epc = "returned"
    /\ events_left = 0
    /\ Len(scan_result) = 2
    /\ Len(scan_result) < MaxEvents
    /\ enriched[1].ratio_failed
    /\ enriched[1].ratio # NEUTRAL_RATIO
    /\ ~enriched[2].ratio_failed

IsPrefix(s, t) == Len(s) <= Len(t) /\ \A i \in 1..Len(s) : s[i] = t[i]

FilterPasses(name, tok) ==
    IF name = "Liquidity Filter"
    THEN tok.has_liquidity /\ tok.liquidity_usd >= MINIMUM_LIQUIDITY_USD
    ELSE ~(tok.has_safety /\ (tok.is_safe = "false" \/ tok.risk_level = "high"))

\* C21: the filters are applied to a token in registration order; after a
\* filter rejected the token no later filter is applied to it; and the call
\* returns True exactly when every filter passes the token.
C21_ShortCircuitInOrder ==
    /\ IsPrefix(evaluated, FilterOrder)
    /\ \A i \in 1..Len(evaluated) :
          ~FilterPasses(evaluated[i], ftok) => i = Len(evaluated)
    /\ (fpos = 0 /\ fresult # "none") =>
          /\ fresult = "pass" <=>
                \A i \in 1..Len(FilterOrder) : FilterPasses(FilterOrder[i], ftok)
          /\ fresult = "reject" => rejected_by = evaluated[Len(evaluated)]

C21_Witness ==
    /\ fpos = 0
    /\ fresult = "reject"
    /\ evaluated = <<"Liquidity Filter">>
    /\ ~FilterPasses("Safety Filter", ftok)

\* C22: a token whose liquidity_usd is below MINIMUM_LIQUIDITY_USD or
\* missing is rejected by the chain, and the rejecting filter is the
\* liquidity filter; a token with liquidity_usd at or above the minimum is
\* not rejected by the liquidity filter.
C22_LiquidityFloor ==
    (fpos = 0 /\ fresult # "none") =>
        IF ~ftok.has_liquidity \/ ftok.liquidity_usd < MINIMUM_LIQUIDITY_USD
        THEN fresult = "reject" /\ rejected_by = "Liquidity Filter"
        ELSE rejected_by # "Liquidity Filter"

C22_Witness ==
    /\ fpos = 0
    /\ fresult = "reject"
    /\ rejected_by = "Liquidity Filter"
    /\ ~ftok.has_liquidity

\* C23: once the safety filter was applied to a token, it rejected it
\* exactly when the token's safety says is_safe false or risk_level "high";
\* a token without safety information passes it.
C23_SafetyPredicate ==
    (fpos = 0 /\ Len(evaluated) = 2) =>
        (rejected_by = "Safety Filter" <=>
            (ftok.has_safety /\ (ftok.is_safe = "false" \/ ftok.risk_level = "high")))

C23_Witness ==
    /\ fpos = 0
    /\ fresult = "pass"
    /\ ~ftok.has_safety

\* --------------------------------------------------------- scorer claims
InRange(x) == 0 <= x /\ x <= 100 * Milli

\* C24: for every token, whatever its metric values, each component score
\* and the total score the scorer returns lie in [0,100].
C24_ScoresWithinRange ==
    score_pc = "returned" =>
        /\ InRange(token_scores.liquidity_score)
        /\ InRange(token_scores.volume_score)
        /\ InRange(token_scores.social_score)
        /\ InRange(token_scores.safety_score)
        /\ InRange(token_scores.total_score)

\* C25: a token flagged as a honeypot gets safety score 0, whatever its
\* audit score, contract verification, buy/sell ratio and holder count.
C25_UnsafeScoresZero ==
    (score_pc = "returned" /\ scored_token.is_honeypot) =>
        token_scores.safety_score = 0

\* ---------------------------------------------------------- cache claims
CacheGetStep(k) ==
    /\ last_cache_op'.seq # last_cache_op.seq
    /\ last_cache_op'.op = "get"
    /\ last_cache_op'.key = k

\* no entry stored for k is still within its time to live
AllExpired(k) ==
    /\ RedisGet(redis_store, k, ctime) = Nil
    /\ k \in DOMAIN memory_cache => memory_cache[k].expires_at <= ctime

C27_SetThenGet ==
    /\ last_cache_op.op = "set" => last_cache_op.result = "True"
    /\ \A k \in DOMAIN latest :
          (/\ last_cache_op.op = "get"
           /\ last_cache_op.key = k
           /\ ~last_cache_op.backend_failed) =>
              last_cache_op.result =
                  IF last_cache_op.at < latest[k].expires_at
                  THEN latest[k].value ELSE Miss

\* C28 as claimed: no get, set or delete raises, and a get made while the
\* backend is failing returns a miss.
C28_FailureIsMiss ==
    /\ ~last_cache_op.raised
    /\ (last_cache_op.op = "get" /\ last_cache_op.backend_failed) =>
          last_cache_op.result = Miss

\* C28, amended: no get, set or delete raises, and a get made while the
\* backend is failing is answered from the in-memory cache: the value of
\* its entry for the key when that entry has not expired, else a miss.
C28_FailureFallsBack ==
    [][/\ ~last_cache_op'.raised
       /\ \A k \in CacheKeys :
             (CacheGetStep(k) /\ cache_mode = "redis" /\ ~redis_up) =>
                 last_cache_op'.result =
                     IF k \in DOMAIN memory_cache
                        /\ memory_cache[k].expires_at > ctime
                     THEN memory_cache[k].value ELSE Miss]_vars

C28_Witness ==
    /\ last_cache_op.op = "get"
    /\ last_cache_op.backend_failed
    /\ last_cache_op.result # Miss
    /\ last_cache_op.key \in DOMAIN redis_store

\* ---------------------------------------------------------------------
\* The life of the scanner service: main() initializes it and creates the
\* task of ScannerService.start, which initializes again and runs the scan
\* loop while self.running; stop() clears the flag.

\* the cycle of the loop of ScannerService.start
LoopCycle == 1

\* the positions of start() inside its loop (lines 74-77)
LoopPositions == {"loop", "cycle", "sleeping"}

\* initialize, lines 33-47: the adapters whose initialize() succeeds are
\* added to self.scanners
ScannersAfterInitialize == scanners \cup initializable

\* initialize, lines 50-56: False when self.scanners is empty
InitializeSucceeds == ScannersAfterInitialize # {}

\* an adapter's node or API comes up: its initialize() succeeds from now on
AdapterBecomesInitializable(a) ==
    /\ a \notin initializable
    /\ initializable' = initializable \cup {a}
    /\ UNCHANGED <<scan_running, srv_pc, stop_in_cycle>>
    /\ UNCHANGED outside_service

\* main, lines 63-68 and 91-93: the service is initialized; on a failure
\* main returns, otherwise the task of start() is created
MainInitialize ==
    /\ srv_pc = "new"
    /\ scanners' = ScannersAfterInitialize
    /\ srv_pc' = IF InitializeSucceeds THEN "created" ELSE "main_returned"
    /\ UNCHANGED <<scan_running, initializable, stop_in_cycle>>
    /\ UNCHANGED <<scan_semaphore, cyc, spc, tres, all_tokens, ppc, sraised>>
    /\ UNCHANGED outside_scan_service

\* start, lines 60-70, on the task main created or called on a new service:
\* it returns when the service runs already or when initialize() fails,
\* otherwise it sets self.running and reaches the loop
ServiceStart ==
    /\ srv_pc \in {"new", "created"}
    /\ scanners' = IF scan_running THEN scanners ELSE ScannersAfterInitialize
    /\ srv_pc' = IF scan_running \/ ~InitializeSucceeds THEN "returned"
                                                        ELSE "loop"
    /\ scan_running' = (scan_running \/ InitializeSucceeds)
    /\ UNCHANGED <<initializable, stop_in_cycle>>
    /\ UNCHANGED <<scan_semaphore, cyc, spc, tres, all_tokens, ppc, sraised>>
    /\ UNCHANGED outside_scan_service

LoopContinues_always(running) == TRUE

\* start, line 74: while self.running
LoopContinues(running) == running

\* start, lines 74-76: the flag is set; scan_all_blockchains is awaited
LoopScan ==
    /\ srv_pc = "loop"
    /\ LoopContinues(scan_running)
    /\ ScanAllBlockchainsCall(LoopCycle)
    /\ srv_pc' = IF scanners = {} THEN "sleeping" ELSE "cycle"
    /\ UNCHANGED <<scan_running, initializable, stop_in_cycle>>
    /\ UNCHANGED outside_scan_service

\* start, line 74: the flag is clear; the loop and start() are left
LoopExit ==
    /\ srv_pc = "loop"
    /\ ~LoopContinues(scan_running)
    /\ srv_pc' = "exited"
    /\ UNCHANGED <<scan_running, initializable, stop_in_cycle>>
    /\ UNCHANGED outside_service

\* start, lines 76-77: scan_all_blockchains returned; the loop sleeps
LoopGathered ==
    /\ srv_pc = "cycle"
    /\ GatherReturns(LoopCycle)
    /\ srv_pc' = "sleeping"
    /\ UNCHANGED <<scan_running, initializable, stop_in_cycle>>
    /\ UNCHANGED outside_scan_service

\* start, line 77: the sleep of scan_interval seconds is over
LoopWakes ==
    /\ srv_pc = "sleeping"
    /\ srv_pc' = "loop"
    /\ UNCHANGED <<scan_running, initializable, stop_in_cycle>>
    /\ UNCHANGED outside_service

\* stop, lines 85-88: the flag is cleared, nothing else is touched
ServiceStop ==
    /\ scan_running
    /\ scan_running' = FALSE
    /\ stop_in_cycle' = (stop_in_cycle \/ srv_pc = "cycle")
    /\ UNCHANGED <<srv_pc, initializable>>
    /\ UNCHANGED outside_service

\* the steps the event loop takes on its own
ServiceTaskStep ==
    \/ \E a \in Adapters : ScanEnter(LoopCycle, a)
    \/ \E a \in Adapters :
          \E toks \in ScanLists(a) : ScanReturns(LoopCycle, a, toks)
    \/ \E a \in Adapters : ScanRaises(LoopCycle, a)

NextService ==
    \/ \E a \in Adapters : AdapterBecomesInitializable(a)
    \/ MainInitialize
    \/ ServiceStart
    \/ LoopScan
    \/ LoopExit
    \/ LoopGathered
    \/ LoopWakes
    \/ ServiceStop
    \/ ServiceTaskStep

\* asyncio runs every task that is ready: main and start() go on, a task
\* that waits for a permit gets it, a scan returns or raises, a sleep ends.
\* stop() and the adapters' backends are not bound to happen.
SpecService ==
    /\ Init
    /\ [][NextService]_vars
    /\ WF_vars(MainInitialize)
    /\ WF_vars(ServiceStart)
    /\ WF_vars(LoopScan)
    /\ WF_vars(LoopExit)
    /\ WF_vars(LoopGathered)
    /\ WF_vars(LoopWakes)
    /\ \A a \in Adapters : WF_vars(ScanEnter(LoopCycle, a))
    /\ \A a \in Adapters :
          WF_vars(\E toks \in ScanLists(a) : ScanReturns(LoopCycle, a, toks))

C30_StartsOnceInitializable ==
    (initializable # {}) ~> (srv_pc \in LoopPositions \cup {"exited"})

\* C31: whatever sets, gets, deletes, backend failures and recoveries came
\* before, a get(k) returns the value of the most recent set of k when that
\* entry has not expired and no delete of k followed it, and a miss
\* otherwise.
C31_GetReflectsLastWrite ==
    last_cache_op.op = "get" =>
        last_cache_op.result =
            IF /\ last_cache_op.key \in DOMAIN latest
               /\ last_cache_op.at < latest[last_cache_op.key].expires_at
            THEN latest[last_cache_op.key].value
            ELSE Miss

\* ---------------------------------------------------------------------
\* cache_result: concurrent calls of one wrapped coroutine function with the
\* same arguments, on the cache of SpecCache.

\* the ttl_seconds of the decorator, in the time unit of the cache model
WrapTtl == 2

\* async_wrapper, line 132: cached is not None
IsCacheHit(cached) == cached # Miss

PinActive == pin # NoPin /\ ctime < pin.until

\* async_wrapper, lines 128-138: the key is looked up; a hit is returned,
\* on a miss the wrapped function is awaited
WrapperCall(c) ==
    /\ wpc[c] = "idle"
    /\ CacheGetCall(WrapKey)
    /\ IF IsCacheHit(last_cache_op'.result)
       THEN /\ last_wrap' = [caller |-> c, result |-> last_cache_op'.result,
                             invoked |-> FALSE, seq |-> 1 - last_wrap.seq]
            /\ UNCHANGED wpc
       ELSE /\ wpc' = [wpc EXCEPT ![c] = "running"]
            /\ UNCHANGED last_wrap
    /\ pin' = IF PinActive THEN pin ELSE NoPin
    /\ UNCHANGED outside_wrap

\* async_wrapper, lines 138-140: the wrapped function returned r; r is set
\* with the ttl of the decorator and returned
WrapperFuncReturns(c, r) ==
    /\ wpc[c] = "running"
    /\ CacheSetCall(WrapKey, r, WrapTtl)
    /\ wpc' = [wpc EXCEPT ![c] = "idle"]
    /\ last_wrap' = [caller |-> c, result |-> r, invoked |-> TRUE,
                     seq |-> 1 - last_wrap.seq]
    /\ pin' = IF r # Miss /\ ~PinActive
              THEN [value |-> r, until |-> ctime + WrapTtl]
              ELSE pin
    /\ UNCHANGED outside_wrap

NextWrap ==
    \/ \E connected \in BOOLEAN : CacheConstruct(connected)
    \/ \E c \in WrapCallers : WrapperCall(c)
    \/ \E c \in WrapCallers, r \in WrapResults : WrapperFuncReturns(c, r)
    \/ RedisFails
    \/ RedisRecovers
    \/ CacheTick

SpecWrap == Init /\ [][NextWrap]_vars

\* a call of the wrapper by c begins in this step
WrapperCallStep(c) ==
    /\ wpc[c] = "idle"
    /\ \/ wpc'[c] = "running"
       \/ /\ last_wrap'.seq # last_wrap.seq
          /\ last_wrap'.caller = c
          /\ ~last_wrap'.invoked

\* C32: once a call of the wrapped operation has returned a result other
\* than None, a call that begins before the ttl has elapsed returns that
\* result without invoking the operation, and a call that begins when the
\* ttl has elapsed invokes it.
C32_CachedUntilTtl ==
    [][\A c \in WrapCallers :
          WrapperCallStep(c) =>
              /\ PinActive =>
                    /\ wpc'[c] = "idle"
                    /\ last_wrap'.result = pin.value
              /\ (pin # NoPin /\ ~PinActive) => wpc'[c] = "running"]_vars

\* ---------------------------------------------------------------------
\* Concurrent calls of ScannerService.start and stop on one service.
\* start() tests self.running, suspends in initialize() and sets
\* self.running only afterwards.

\* the scan cycle the loop of a start() call awaits
CycleOf(s) == IF s = "s1" THEN 1 ELSE 2

\* start, lines 60-65: the call returns when the service runs already,
\* otherwise it awaits initialize()
StartCall(s) ==
    /\ start_pc[s] = "new"
    /\ start_pc' = [start_pc EXCEPT ![s] = IF scan_running THEN "returned"
                                           ELSE "initializing"]
    /\ UNCHANGED <<started_before_stop, stop_done>>
    /\ UNCHANGED <<service_vars, scan_vars, outside_starts>>

\* start, lines 65-71: initialize() is over; on a failure the call returns,
\* otherwise it sets self.running and reaches the loop
StartInitialized(s) ==
    /\ start_pc[s] = "initializing"
    /\ scanners' = ScannersAfterInitialize
    /\ scan_running' = (scan_running \/ InitializeSucceeds)
    /\ start_pc' = [start_pc EXCEPT ![s] = IF InitializeSucceeds THEN "loop"
                                           ELSE "returned"]
    /\ UNCHANGED <<started_before_stop, stop_done>>
    /\ UNCHANGED <<srv_pc, initializable, stop_in_cycle>>
    /\ UNCHANGED <<scan_semaphore, cyc, spc, tres, all_tokens, ppc, sraised>>
    /\ UNCHANGED outside_starts

\* start, lines 74-76: the flag is set; scan_all_blockchains is awaited
StartLoopScan(s) ==
    /\ start_pc[s] = "loop"
    /\ LoopContinues(scan_running)
    /\ ScanAllBlockchainsCall(CycleOf(s))
    /\ start_pc' = [start_pc EXCEPT ![s] = IF scanners = {} THEN "sleeping"
                                           ELSE "cycle"]
    /\ UNCHANGED <<started_before_stop, stop_done>>
    /\ UNCHANGED <<service_vars, outside_starts>>

\* start, line 74: the flag is clear; the loop and the call are left
StartLoopExit(s) ==
    /\ start_pc[s] = "loop"
    /\ ~LoopContinues(scan_running)
    /\ start_pc' = [start_pc EXCEPT ![s] = "exited"]
    /\ UNCHANGED <<started_before_stop, stop_done>>
    /\ UNCHANGED <<service_vars, scan_vars, outside_starts>>

\* start, lines 76-77: scan_all_blockchains returned; the loop sleeps
StartGathered(s) ==
    /\ start_pc[s] = "cycle"
    /\ GatherReturns(CycleOf(s))
    /\ start_pc' = [start_pc EXCEPT ![s] = "sleeping"]
    /\ UNCHANGED <<started_before_stop, stop_done>>
    /\ UNCHANGED <<service_vars, outside_starts>>

\* start, line 77: the sleep of scan_interval seconds is over
StartWakes(s) ==
    /\ start_pc[s] = "sleeping"
    /\ start_pc' = [start_pc EXCEPT ![s] = "loop"]
    /\ UNCHANGED <<started_before_stop, stop_done>>
    /\ UNCHANGED <<service_vars, scan_vars, outside_starts>>

\* stop, lines 85-88, called at any moment
StopCall ==
    /\ scan_running' = FALSE
    /\ stop_done' = TRUE
    /\ started_before_stop' = {s \in Starters : start_pc[s] # "new"}
    /\ UNCHANGED start_pc
    /\ UNCHANGED <<srv_pc, initializable, stop_in_cycle>>
    /\ UNCHANGED <<scan_vars, outside_starts>>

\* the scan_blockchain tasks of the cycles in flight
StartsTaskStep ==
    \/ \E cy \in Cycles, a \in Adapters : ScanEnter(cy, a)
    \/ \E cy \in Cycles, a \in Adapters :
          \E toks \in GateLists(a) : ScanReturns(cy, a, toks)
    \/ \E cy \in Cycles, a \in Adapters : ScanRaises(cy, a)

NextStarts ==
    \/ \E a \in Adapters : AdapterBecomesInitializable(a)
    \/ \E s \in Starters : StartCall(s)
    \/ \E s \in Starters : StartInitialized(s)
    \/ \E s \in Starters : StartLoopScan(s)
    \/ \E s \in Starters : StartLoopExit(s)
    \/ \E s \in Starters : StartGathered(s)
    \/ \E s \in Starters : StartWakes(s)
    \/ StopCall
    \/ StartsTaskStep

\* asyncio runs every task that is ready; when start() and stop() are
\* called and when a backend comes up is not bound to happen.
SpecStarts ==
    /\ Init
    /\ [][NextStarts]_vars
    /\ \A s \in Starters :
          /\ WF_vars(StartInitialized(s))
          /\ WF_vars(StartLoopScan(s))
          /\ WF_vars(StartLoopExit(s))
          /\ WF_vars(StartGathered(s))
          /\ WF_vars(StartWakes(s))
    /\ \A cy \in Cycles, a \in Adapters :
          /\ WF_vars(ScanEnter(cy, a))
          /\ WF_vars(\E toks \in GateLists(a) : ScanReturns(cy, a, toks))

\* C33: whatever the interleaving of concurrent start() calls, at most one
\* of them is in the scan loop.
C33_OneLoop ==
    Cardinality({s \in Starters : start_pc[s] \in LoopPositions}) <= 1

\* C34: once stop() has completed, no start() call made before it begins a
\* scan cycle, and each of those calls returns in the end.
C34_StopEndsLoops ==
    /\ [][\A s \in started_before_stop :
             ~(start_pc[s] # "cycle" /\ start_pc'[s] = "cycle")]_vars
    /\ \A s \in Starters :
          (s \in started_before_stop) ~>
              (start_pc[s] \in {"returned", "exited"})

\* C35: with a dispatcher set, a process_tokens call returns only when
\* send_signal has been invoked for every signal that generate_signals
\* recorded for it: the call does not return from the loop of
\* generate_signals with signals left, and when it returns from the sending
\* loop the send_signal that just ended was the one of its last signal,
\* also when that or an earlier send failed or raised.
C35_RecordedAreDispatched ==
    [][\A t \in Tasks :
          telegram_service =>
              /\ (pc[t] = "generating" /\ pc'[t] = "idle") =>
                    signals'[t] = << >>
              /\ (pc[t] = "sending" /\ pc'[t] = "idle") =>
                    Len(signals[t]) = 1]_vars

\* C36: for an address that is not in cooldown, can_generate_signal returns
\* true whenever fewer than MAX_SIGNALS_PER_HOUR signals were recorded in
\* the 60 minutes before now (a signal recorded exactly 60 minutes ago
\* counted among them), whatever was recorded earlier.
C36_CapBlocksOnlyWhenUsedUp ==
    \A addr \in Addresses :
       (/\ OutOfCooldown(addr)
        /\ Cardinality({e \in recorded : e.at >= now - HourMinutes})
              < MAX_SIGNALS_PER_HOUR)
          => CanGenerateSignal(addr)

\* C37: in every reachable state of the breaker, with any number of calls
\* in flight, a closed breaker has failure_count < failure_threshold and an
\* open breaker has failure_count >= failure_threshold.
C37_StateMatchesCount ==
    /\ state = "closed" => failure_count < failure_threshold
    /\ state = "open" => failure_count >= failure_threshold

C37_Witness ==
    /\ state = "open"
    /\ last_event.kind = "succeeded"
    /\ last_event.from = "open"
    /\ failure_count >= failure_threshold

\* C38: a call that succeeds on a closed breaker leaves failure_count,
\* last_failure_time and state unchanged; a failure on a closed breaker
\* opens it exactly when it is the failure_threshold-th since the breaker
\* was last closed, successes in between or not, and failure_count of a
\* closed breaker is the number of those failures.
C38_ClosedSuccessIsNeutral ==
    [][/\ (IsEvent("succeeded") /\ state = "closed")
            => UNCHANGED <<failure_count, last_failure_time, state>>
       /\ (IsEvent("failed") /\ state = "closed")
            => /\ state' = IF streak + 1 >= failure_threshold
                           THEN "open" ELSE "closed"
               /\ failure_count' = streak + 1
       /\ state' = "closed" => failure_count' = streak']_vars

C38_Witness ==
    /\ state = "open"
    /\ last_event.kind = "failed"
    /\ last_event.from = "closed"
    /\ failure_count = failure_threshold
    /\ \E c \in Calls : cpc[c] = "inflight"
    /\ clock = 0

\* ---------------------------------------------------------------------
\* FilterService.apply_filters and apply_filters_in_parallel on a batch.

\* filter_instance.apply(token) raises: the comparison of
\* LiquidityFilter.apply (line 50) on a liquidity_usd of None, the
\* safety_info.get of SafetyFilter.apply (line 42) on a safety of None
FilterRaises(name, tok) ==
    \/ name = "Liquidity Filter" /\ tok.malformed = "liquidity"
    \/ name = "Safety Filter" /\ tok.malformed = "safety"

ResultOnRaise_pass == TRUE

\* apply_filters_to_token, lines 71-73: except Exception: ... return False
ResultOnRaise == FALSE

\* apply_filters_to_token, lines 66-73: what one turn of the loop makes of
\* the filter at pos
FilterOutcome(pos, tok) ==
    IF FilterRaises(FilterOrder[pos], tok) THEN ResultOnRaise
    ELSE FilterApply(FilterOrder[pos], tok)

\* apply_filters_to_token, lines 66-75, from the filter at pos on
RECURSIVE ChainResult(_, _)
ChainResult(tok, pos) ==
    IF pos > Len(FilterOrder) THEN TRUE
    ELSE IF ~FilterOutcome(pos, tok) THEN FALSE
    ELSE ChainResult(tok, pos + 1)

\* apply_filters, lines 45-54: the tokens are awaited one after the other
\* and those that passed are appended in the order of the list
RECURSIVE ApplyFilters(_)
ApplyFilters(toks) ==
    IF toks = << >> THEN << >>
    ELSE (IF ChainResult(Head(toks), 1) THEN <<Head(toks)>> ELSE << >>)
             \o ApplyFilters(Tail(toks))

\* apply_filters_in_parallel, lines 88-101: an empty list returns at once,
\* otherwise one filter_with_limit task per token is gathered
ApplyFiltersInParallel(toks, k) ==
    /\ par_state = "idle"
    /\ UNCHANGED outside_par
    /\ par_tokens' = toks
    /\ par_limit' = k
    /\ par_sem' = k
    /\ par_task' = [i \in 1..Len(toks) |-> NewParTask]
    /\ par_state' = IF toks = << >> THEN "returned" ELSE "gathering"
    /\ par_out' = << >>

\* filter_with_limit, lines 94-95: the task of the i-th token gets a permit
\* and calls apply_filters_to_token
ParEnter(i) ==
    /\ par_state = "gathering"
    /\ par_task[i].pc = "waiting"
    /\ SemaphoreFree(par_sem)
    /\ UNCHANGED outside_par
    /\ par_sem' = par_sem - 1
    /\ par_task' = [par_task EXCEPT ![i].pc = "evaluating", ![i].pos = 1]
    /\ UNCHANGED <<par_state, par_tokens, par_limit, par_out>>

\* apply_filters_to_token, lines 66-75, in the task of the i-th token: one
\* turn of the loop; when the call returns the task gives the permit back
\* and returns the token or None (lines 95-98)
ParFilterStep(i) ==
    /\ par_state = "gathering"
    /\ par_task[i].pc = "evaluating"
    /\ UNCHANGED outside_par
    /\ LET t == par_task[i]
           tok == par_tokens[i]
           f == FilterOrder[t.pos]
           ok == FilterOutcome(t.pos, tok)
           pos == FilterPosAfter(t.pos, ok)
       IN /\ par_task' = [par_task EXCEPT ![i] =
                [pc |-> IF pos = 0 THEN "done" ELSE "evaluating",
                 pos |-> pos,
                 evaluated |-> Append(t.evaluated, f),
                 raised |-> IF FilterRaises(f, tok) THEN f ELSE t.raised,
                 res |-> IF pos # 0 THEN "pending"
                         ELSE IF ok THEN "token" ELSE "None"]]
          /\ par_sem' = IF pos = 0 THEN par_sem + 1 ELSE par_sem
    /\ UNCHANGED <<par_state, par_tokens, par_limit, par_out>>

ResultKept_all(r) == TRUE

\* apply_filters_in_parallel, lines 108-112: a result that is neither an
\* exception nor None is appended
ResultKept(r) == r = "token"

\* apply_filters_in_parallel, lines 107-112: the results of the tasks, from
\* the i-th on, in the order of the tasks
RECURSIVE KeptResults(_, _, _)
KeptResults(tasks, toks, i) ==
    IF i > Len(toks) THEN << >>
    ELSE (IF ResultKept(tasks[i].res) THEN <<toks[i]>> ELSE << >>)
             \o KeptResults(tasks, toks, i + 1)

\* apply_filters_in_parallel, lines 104-115: every task has finished
ParGatherDone ==
    /\ par_state = "gathering"
    /\ \A i \in 1..Len(par_tokens) : par_task[i].pc = "done"
    /\ UNCHANGED outside_par
    /\ par_out' = KeptResults(par_task, par_tokens, 1)
    /\ par_state' = "returned"
    /\ UNCHANGED <<par_tokens, par_limit, par_sem, par_task>>

NextParallel ==
    \/ \E toks \in ParLists, k \in 1..MaxConcurrency :
          ApplyFiltersInParallel(toks, k)
    \/ \E i \in 1..MaxParLen : i <= Len(par_tokens) /\ ParEnter(i)
    \/ \E i \in 1..MaxParLen : i <= Len(par_tokens) /\ ParFilterStep(i)
    \/ ParGatherDone

SpecParallel == Init /\ [][NextParallel]_vars

\* C39: apply_filters_in_parallel returns the list apply_filters returns
\* for the same tokens, in the order of the input; at no moment are more
\* than max_concurrency tokens being evaluated; the filters of one token
\* are applied one after the other in the order of the chain.
C39_ParallelEqualsSequential ==
    /\ par_state = "returned" => par_out = ApplyFilters(par_tokens)
    /\ par_state = "gathering" =>
          /\ Cardinality({i \in 1..Len(par_tokens) :
                             par_task[i].pc = "evaluating"}) <= par_limit
          /\ \A i \in 1..Len(par_tokens) :
                IsPrefix(par_task[i].evaluated, FilterOrder)

C39_Witness ==
    /\ par_state = "returned"
    /\ par_limit < Len(par_tokens)
    /\ par_tokens[1].id = "reject"
    /\ par_tokens[2].id = "pass"
    /\ par_out = <<par_tokens[2]>>

\* the filter that raised for the i-th token is the last one applied to it
RaisedLast(i) ==
    LET t == par_task[i]
    IN t.raised # NoFilter =>
          /\ t.evaluated # << >>
          /\ t.evaluated[Len(t.evaluated)] = t.raised
          /\ t.pc = "done"
          /\ t.res = "None"

\* C40: a filter that raises for a token ends the evaluation of that token
\* (no later filter, no second try) with the token rejected; the call still
\* returns, and it returns the other tokens of the batch that pass, the
\* token the filter raised for not among them.
C40_RaiseDropsOneCandidate ==
    /\ \A i \in 1..Len(par_tokens) :
          /\ RaisedLast(i)
          /\ IsPrefix(par_task[i].evaluated, FilterOrder)
    /\ par_state = "returned" =>
          par_out = SelectSeq(par_tokens,
                        LAMBDA tok : tok.malformed = "no" /\ ChainResult(tok, 1))

C40_Witness ==
    /\ par_state = "returned"
    /\ Len(par_tokens) = 2
    /\ par_tokens[1].id = "bad_liquidity"
    /\ par_task[1].raised = "Liquidity Filter"
    /\ par_task[1].evaluated = <<"Liquidity Filter">>
    /\ par_tokens[2].id = "pass"
    /\ par_out = <<par_tokens[2]>>

====
